---- MODULE Spec2Model ----
(***************************************************************************)
(* Model of the optimus-ai memory subsystem: the Memory Manager facade     *)
(* (src/memory/manager.py), the data model (src/memory/models.py), the     *)
(* Safety Guard (src/memory/safety.py) and the SQLite store                *)
(* (src/memory/stores/sqlite.py).                                          *)
(*                                                                         *)
(* Strings are sequences of one-character strings, so that len(), join,    *)
(* replace and strip are computed the way Python computes them.            *)
(***************************************************************************)
EXTENDS Integers, Sequences, FiniteSets, TLC

VARIABLES
    users,        \* rows of table users, keyed by id             (sqlite.py 45-51)
    projects,     \* rows of table projects, keyed by id          (sqlite.py 54-62)
    memories,     \* rows of table memories, keyed by id          (sqlite.py 65-86)
    cur_user,     \* MemoryManager._current_user  (None or a User)
    cur_project,  \* MemoryManager._current_project (None or a Project)
    now,          \* the wall clock, in days
    next_id,      \* source of uuid4-generated ids
    ret,          \* outcome of the last Manager / store call
    ctx           \* the last build_context_string call: arguments, parts, result

vars == <<users, projects, memories, cur_user, cur_project, now, next_id, ret, ctx>>

None == "None"

\* an absent User / Project / Memory (Python None where an object is expected)
NoneRec == [id |-> None]

\* an absent datetime
NoTime == 0 - 1

(***************************************************************************)
(* Bounds of the model.                                                    *)
(***************************************************************************)
MaxSection == 1     \* most memories retrieved for one fixed section (context check)
MaxHistory == 3     \* most conversations retrieved as history (context check)
MidLen     == 40    \* length of the medium test content
LongLen    == 88    \* length of the long test content

(***************************************************************************)
(* Python string primitives.                                               *)
(***************************************************************************)
Fill(ch, n) == [i \in 1..n |-> ch]

Whitespace == {" ", "\n", "\t", "\r"}

RECURSIVE LStrip(_)
LStrip(s) ==
    IF s # <<>> /\ Head(s) \in Whitespace THEN LStrip(Tail(s)) ELSE s

RECURSIVE RStrip(_)
RStrip(s) ==
    IF s # <<>> /\ s[Len(s)] \in Whitespace
    THEN RStrip(SubSeq(s, 1, Len(s) - 1))
    ELSE s

\* str.strip()
Strip(s) == RStrip(LStrip(s))

\* list[::-1]
Reverse(s) == [i \in 1..Len(s) |-> s[Len(s) + 1 - i]]

RECURSIVE Concat(_)
\* "".join(list of strings)
Concat(ss) == IF ss = <<>> THEN <<>> ELSE Head(ss) \o Concat(Tail(ss))

(***************************************************************************)
(* build_context_string  (manager.py 587-671)                              *)
(***************************************************************************)
HdrOpen  == <<"\n", "=", "=", "=", " ">>
HdrClose == <<" ", "=", "=", "=", "\n">>
LearnedCorrections  == <<"L", "e", "a", "r", "n", "e", "d", " ", "C", "o", "r", "r", "e", "c", "t", "i", "o", "n", "s">>
UserPreferences     == <<"U", "s", "e", "r", " ", "P", "r", "e", "f", "e", "r", "e", "n", "c", "e", "s">>
ProjectContext      == <<"P", "r", "o", "j", "e", "c", "t", " ", "C", "o", "n", "t", "e", "x", "t">>
ConversationHistory == <<"C", "o", "n", "v", "e", "r", "s", "a", "t", "i", "o", "n", " ", "H", "i", "s", "t", "o", "r", "y">>
Bullet == <<"-", " ">>

HeaderBuffer  == 100   \* "if remaining_chars < 100"
EntryOverhead == 10    \* "mem_size = len(mem.content) + 10"
HistoryBatch  == 50    \* get_recent_conversations(limit=50)

RECURSIVE JoinBullets(_)
\* "\n".join([f"- {m.content}" for m in items])
JoinBullets(items) ==
    IF items = <<>> THEN <<>>
    ELSE IF Len(items) = 1 THEN Bullet \o items[1].content
    ELSE Bullet \o items[1].content \o <<"\n">> \o JoinBullets(Tail(items))

\* f"\n=== {header} ===\n{section_content}\n"
SectionText(header, items) ==
    HdrOpen \o header \o HdrClose \o JoinBullets(items) \o <<"\n">>

\* add_section without its "only add if it fits" test
add_section_nocheck(st, header, items, max_chars) ==
    IF items = <<>> THEN st
    ELSE LET section_text == SectionText(header, items)
         IN  [parts |-> Append(st.parts,
                               [header |-> header, items |-> items, text |-> section_text]),
              current_chars |-> st.current_chars + Len(section_text)]

\* add_section cutting a section that does not fit down to the budget left
add_section_truncating(st, header, items, max_chars) ==
    IF items = <<>> THEN st
    ELSE LET section_text == SectionText(header, items)
             fitted == IF st.current_chars + Len(section_text) <= max_chars
                       THEN section_text
                       ELSE SubSeq(section_text, 1, max_chars - st.current_chars)
         IN  [parts |-> Append(st.parts,
                               [header |-> header, items |-> items, text |-> fitted]),
              current_chars |-> st.current_chars + Len(fitted)]

\* the nested helper add_section; st carries the closure's parts and current_chars
add_section(st, header, items, max_chars) ==
    IF items = <<>> THEN st
    ELSE LET section_text == SectionText(header, items)
         IN  IF st.current_chars + Len(section_text) <= max_chars
             THEN [parts |-> Append(st.parts,
                                    [header |-> header, items |-> items, text |-> section_text]),
                   current_chars |-> st.current_chars + Len(section_text)]
             ELSE st

RECURSIVE WalkSkipping(_, _, _)
\* the history walk with "continue" in place of "break"
WalkSkipping(history, remaining_chars, selected_history) ==
    IF history = <<>> THEN selected_history
    ELSE LET mem == Head(history)
             mem_size == Len(mem.content) + EntryOverhead
         IN  IF mem_size <= remaining_chars
             THEN WalkSkipping(Tail(history), remaining_chars - mem_size,
                               Append(selected_history, mem))
             ELSE WalkSkipping(Tail(history), remaining_chars, selected_history)

RECURSIVE Walk(_, _, _)
\* "for mem in history: ... else: break"
Walk(history, remaining_chars, selected_history) ==
    IF history = <<>> THEN selected_history
    ELSE LET mem == Head(history)
             mem_size == Len(mem.content) + EntryOverhead
         IN  IF mem_size <= remaining_chars
             THEN Walk(Tail(history), remaining_chars - mem_size,
                       Append(selected_history, mem))
             ELSE selected_history

\* the history section handed to add_section without the [::-1]
HistorySectionNewestFirst(selected_history) == selected_history

\* selected_history[::-1]
HistorySection(selected_history) == Reverse(selected_history)

\* PHASE 3, the squeeze: st is the state left by the fixed sections
Squeeze(st, history, max_chars) ==
    IF history = <<>> THEN st
    ELSE LET remaining_chars == max_chars - st.current_chars
         IN  IF remaining_chars < HeaderBuffer THEN st
             ELSE add_section(st, ConversationHistory,
                              HistorySection(Walk(history, remaining_chars, <<>>)),
                              max_chars)

\* PHASE 2 with preferences and project context placed ahead of corrections
FixedSectionsCorrectionsLast(corrections, preferences, project_context, max_chars) ==
    LET s0 == [parts |-> <<>>, current_chars |-> 0]
        s1 == add_section(s0, UserPreferences, preferences, max_chars)
        s2 == add_section(s1, ProjectContext, project_context, max_chars)
    IN  add_section(s2, LearnedCorrections, corrections, max_chars)

\* PHASE 2: corrections, then preferences, then project context
FixedSections(corrections, preferences, project_context, max_chars) ==
    LET s0 == [parts |-> <<>>, current_chars |-> 0]
        s1 == add_section(s0, LearnedCorrections, corrections, max_chars)
        s2 == add_section(s1, UserPreferences, preferences, max_chars)
    IN  add_section(s2, ProjectContext, project_context, max_chars)

\* the assembly with the history squeezed in before the fixed sections
AssembleHistoryFirst(history, corrections, preferences, project_context, max_chars) ==
    LET h  == Squeeze([parts |-> <<>>, current_chars |-> 0], history, max_chars)
        s1 == add_section(h, LearnedCorrections, corrections, max_chars)
        s2 == add_section(s1, UserPreferences, preferences, max_chars)
    IN  add_section(s2, ProjectContext, project_context, max_chars)

\* PHASES 2 and 3 of build_context_string on the four retrieved lists
Assemble(history, corrections, preferences, project_context, max_chars) ==
    Squeeze(FixedSections(corrections, preferences, project_context, max_chars),
            history, max_chars)

\* return "".join(parts).strip()
Render(parts) == Strip(Concat([i \in 1..Len(parts) |-> parts[i].text]))


(***************************************************************************)
(* Safety Guard  (safety.py)                                               *)
(***************************************************************************)
Max(a, b) == IF a >= b THEN a ELSE b
Min(a, b) == IF a <= b THEN a ELSE b
MinOf(S) == CHOOSE x \in S : \A y \in S : x <= y
MaxOf(S) == CHOOSE x \in S : \A y \in S : y <= x

\* F(v) with v computed once: a local variable of the code
With(v, F(_)) == CHOOSE r \in {F(x) : x \in {v}} : TRUE

StartsWithAt(s, i, t) == i + Len(t) - 1 <= Len(s) /\ \A j \in 1..Len(t) : s[i + j - 1] = t[j]

\* "t in s"
Contains(s, t) == \E i \in 1..Len(s) : StartsWithAt(s, i, t)

RECURSIVE ReplaceFrom(_, _, _, _)
ReplaceFrom(s, i, old, new) ==
    With({j \in i..Len(s) : StartsWithAt(s, j, old)}, LAMBDA starts :
        IF starts = {} THEN SubSeq(s, i, Len(s))
        ELSE With(MinOf(starts), LAMBDA j :
                 SubSeq(s, i, j - 1) \o new \o ReplaceFrom(s, j + Len(old), old, new)))

\* str.replace(old, new): leftmost, non-overlapping occurrences
Replace(s, old, new) == IF Contains(s, old) THEN ReplaceFrom(s, 1, old, new) ELSE s

\* s[:b] for an index b that may be negative
SliceTo(s, b) ==
    IF b >= 0 THEN SubSeq(s, 1, Min(b, Len(s)))
    ELSE SubSeq(s, 1, Max(Len(s) + b, 0))

\* s.rfind(ch, start): 0-based index of the last ch at or after start, or -1
RFind(s, ch, start) ==
    With({i \in (start + 1)..Len(s) : s[i] = ch}, LAMBDA idx :
        IF idx = {} THEN 0 - 1 ELSE MaxOf(idx) - 1)

REDACTION_MARKER     == <<"[", "R", "E", "D", "A", "C", "T", "E", "D", "]">>
truncation_indicator == <<"\n", ".", ".", ".", " ", "[", "T", "R", "U", "N", "C", "A", "T", "E", "D", "]">>
DEFAULT_MAX_LENGTH   == 10000
TruncationWindow     == 100    \* "final 100 chars"

\* SafetySettings.blocked_sequences, in order
blocked_sequences ==
    << <<"S", "Y", "S", "T", "E", "M", ":">>,
       <<"U", "S", "E", "R", ":">>,
       <<"A", "S", "S", "I", "S", "T", "A", "N", "T", ":">>,
       <<"<", "/", "s", ">">>,
       <<"<", "|", "e", "n", "d", "o", "f", "t", "e", "x", "t", "|", ">">>,
       <<"<", "|", "i", "m", "_", "s", "t", "a", "r", "t", "|", ">">>,
       <<"<", "|", "i", "m", "_", "e", "n", "d", "|", ">">> >>

\* f"\x00ESCAPED_{hash(sequence)}\x00": NUL and the hash digits are one symbol each
Placeholder(k) ==
    <<"NUL", "E", "S", "C", "A", "P", "E", "D", "_">> \o <<"hash", ToString(k)>> \o <<"NUL">>

\* one pass of the loop body of _escape_injection_sequences, for blocked sequence k
EscapeSequence(content, k) ==
    With(<<"[">> \o blocked_sequences[k] \o <<"]">>, LAMBDA safe_version :
    With(Replace(content, safe_version, Placeholder(k)), LAMBDA protected :
    With(Contains(protected, blocked_sequences[k]), LAMBDA hit :
    With(IF hit THEN Replace(protected, blocked_sequences[k], safe_version)
         ELSE protected, LAMBDA replaced :
        [content |-> Replace(replaced, Placeholder(k), safe_version), escaped |-> hit]))))

RECURSIVE EscapeFrom(_, _, _)
\* the loop over blocked_sequences; escaped becomes and stays True on a hit
EscapeFrom(content, k, escaped) ==
    IF k > Len(blocked_sequences) THEN [content |-> content, escaped |-> escaped]
    ELSE With(EscapeSequence(content, k), LAMBDA r :
             EscapeFrom(r.content, k + 1, escaped \/ r.escaped))

\* MemorySafetyGuard._escape_injection_sequences
escape_injection_sequences(content) == EscapeFrom(content, 1, FALSE)

LowerMap ==
    ("A" :> "a") @@ ("B" :> "b") @@ ("C" :> "c") @@ ("D" :> "d") @@ ("E" :> "e") @@
    ("F" :> "f") @@ ("G" :> "g") @@ ("H" :> "h") @@ ("I" :> "i") @@ ("J" :> "j") @@
    ("K" :> "k") @@ ("L" :> "l") @@ ("M" :> "m") @@ ("N" :> "n") @@ ("O" :> "o") @@
    ("P" :> "p") @@ ("Q" :> "q") @@ ("R" :> "r") @@ ("S" :> "s") @@ ("T" :> "t") @@
    ("U" :> "u") @@ ("V" :> "v") @@ ("W" :> "w") @@ ("X" :> "x") @@ ("Y" :> "y") @@
    ("Z" :> "z")

UpperCase == DOMAIN LowerMap

\* re.IGNORECASE
Lower(c) == IF c \in UpperCase THEN LowerMap[c] ELSE c

MatchesNoCase(s, i, kw) ==
    /\ i + Len(kw) - 1 <= Len(s)
    /\ \A j \in 1..Len(kw) : Lower(s[i + j - 1]) = kw[j]

Quotes == {"\"", "'"}

\* the first index at or after i that is past the end of s or holds a character
\* outside chars
SpanEnd(s, i, chars) ==
    CHOOSE e \in i..(Len(s) + 1) :
        /\ e = Len(s) + 1 \/ s[e] \notin chars
        /\ \A j \in i..(e - 1) : s[j] \in chars

\* \s*
SkipSpaces(s, i) == SpanEnd(s, i, Whitespace)

\* [^\s"\']+ taken greedily from i: the index after the run
RunEnd(s, i) ==
    CHOOSE e \in i..(Len(s) + 1) :
        /\ e = Len(s) + 1 \/ s[e] \in Whitespace \cup Quotes
        /\ \A j \in i..(e - 1) : s[j] \notin Whitespace \cup Quotes

\* SafetySettings.sensitive_patterns 6 and 7, (?i)(kw|...)\s*[=:]\s*["\']?[^\s"\']+ .
\* The other seven patterns need "api", "sk-", "AIza", "ghp_", "xox", "-----BEGIN" or
\* "://" to match, none of which occurs in the texts of this model.
sensitive_patterns ==
    << << <<"p", "a", "s", "s", "w", "o", "r", "d">>, <<"p", "a", "s", "s", "w", "d">>,
          <<"p", "w", "d">> >>,
       << <<"s", "e", "c", "r", "e", "t">>, <<"t", "o", "k", "e", "n">> >> >>

\* \s*[=:]\s*["\']?[^\s"\']+ from index after_keyword: where it ends (exclusive);
\* 0 if it does not match
ValueEnd(s, after_keyword) ==
    With(SkipSpaces(s, after_keyword), LAMBDA a :
        IF a > Len(s) \/ s[a] \notin {"=", ":"} THEN 0
        ELSE With(SkipSpaces(s, a + 1), LAMBDA b :
             With(IF b <= Len(s) /\ s[b] \in Quotes THEN b + 1 ELSE b, LAMBDA v :
             With(RunEnd(s, v), LAMBDA e : IF e > v THEN e ELSE 0))))

\* where a match of the key-value pattern starting at i ends (exclusive); 0 if none
MatchEnd(s, i, keywords) ==
    With({k \in 1..Len(keywords) : MatchesNoCase(s, i, keywords[k])}, LAMBDA hits :
        IF hits = {} THEN 0 ELSE ValueEnd(s, i + Len(keywords[MinOf(hits)])))

RECURSIVE SubPattern(_, _, _)
\* pattern.findall and pattern.sub(REDACTION_MARKER, content) in one scan
SubPattern(s, i, keywords) ==
    With({j \in i..Len(s) : MatchEnd(s, j, keywords) > 0}, LAMBDA starts :
        IF starts = {} THEN [content |-> SubSeq(s, i, Len(s)), count |-> 0]
        ELSE With(MinOf(starts), LAMBDA j :
             With(SubPattern(s, MatchEnd(s, j, keywords), keywords), LAMBDA r :
                 [content |-> SubSeq(s, i, j - 1) \o REDACTION_MARKER \o r.content,
                  count |-> r.count + 1])))

RECURSIVE RedactFrom(_, _, _)
\* the loop over sensitive_patterns
RedactFrom(content, k, redaction_count) ==
    IF k > Len(sensitive_patterns) THEN [content |-> content, count |-> redaction_count]
    ELSE With(SubPattern(content, 1, sensitive_patterns[k]), LAMBDA r :
             RedactFrom(r.content, k + 1, redaction_count + r.count))

\* MemorySafetyGuard._redact_sensitive_data, with the mutant that leaves out the
\* password pattern
redact_tokens_only(content) == RedactFrom(content, 2, 0)

redact_sensitive_data(content) == RedactFrom(content, 1, 0)

\* MemorySafetyGuard._truncate_safely, with the mutant that cuts at max_length and not
\* at max_length less the length of the indicator
truncate_at_max_length(content, max_length) ==
    SliceTo(content, max_length) \o truncation_indicator

truncate_safely(content, max_length) ==
    With(max_length - Len(truncation_indicator), LAMBDA effective_max :
        IF effective_max <= 0 THEN truncation_indicator
        ELSE With(SliceTo(content, effective_max), LAMBDA truncated :
             With(Max(0, effective_max - TruncationWindow), LAMBDA from :
             With(Max(RFind(truncated, " ", from), RFind(truncated, "\n", from)),
                  LAMBDA best_break :
                 (IF best_break > effective_max - TruncationWindow
                  THEN SliceTo(truncated, best_break)
                  ELSE truncated) \o truncation_indicator))))

\* the SanitizationResult sanitize_content returns
SanitizationResult(content, red, esc, effective_max, too_long) ==
    With((IF red.count > 0 THEN <<"redacted_secret">> ELSE <<>>)
             \o (IF esc.escaped THEN <<"escaped_injection">> ELSE <<>>)
             \o (IF too_long THEN <<"truncated">> ELSE <<>>), LAMBDA actions :
        [content |-> IF too_long THEN truncate_safely(esc.content, effective_max)
                     ELSE esc.content,
         actions |-> IF actions = <<>> THEN <<"none">> ELSE actions,
         original_length |-> Len(content),
         redacted_count |-> red.count])

\* MemorySafetyGuard.sanitize_content with the default SafetySettings;
\* max_length = 0 stands for both None and 0 ("max_length or DEFAULT_MAX_LENGTH")
sanitize_content(content, max_length) ==
    With(redact_sensitive_data(content), LAMBDA red :
    With(escape_injection_sequences(red.content), LAMBDA esc :
    With(IF max_length = 0 THEN DEFAULT_MAX_LENGTH ELSE max_length, LAMBDA effective_max :
        SanitizationResult(content, red, esc, effective_max,
                           Len(esc.content) > effective_max))))

(***************************************************************************)
(* Path validation  (safety.py 307-386, with posixpath).  A path is the    *)
(* sequence of its components, path.split("/"): "/etc/passwd" is           *)
(* <<"", "etc", "passwd">>, "/" is <<"", "">> and "" is <<"">>.            *)
(***************************************************************************)
\* path.startswith("/")
isabs(path) == Len(path) >= 2 /\ path[1] = ""

\* posixpath.join(a, b)
path_join(a, b) ==
    IF isabs(b) THEN b
    ELSE IF a = <<"">> THEN b
    ELSE IF a[Len(a)] = "" THEN SubSeq(a, 1, Len(a) - 1) \o b
    ELSE a \o b

\* posixpath.normpath: initial_slashes is 2 for a path that starts with exactly two
\* slashes and 1 for any other path that starts with a slash
initial_slashes(path) ==
    IF ~isabs(path) THEN 0
    ELSE IF Len(path) >= 3 /\ path[2] = "" /\ ~(Len(path) >= 4 /\ path[3] = "") THEN 2
    ELSE 1

RECURSIVE new_comps(_, _, _)
\* the loop of normpath over comps[i..], with the list new_comps built so far
new_comps(comps, i, acc) ==
    IF i > Len(comps) THEN acc
    ELSE IF comps[i] \in {"", "."} THEN new_comps(comps, i + 1, acc)
    ELSE IF \/ comps[i] # ".."
            \/ (initial_slashes(comps) = 0 /\ acc = <<>>)
            \/ (acc # <<>> /\ acc[Len(acc)] = "..")
         THEN new_comps(comps, i + 1, Append(acc, comps[i]))
    ELSE IF acc # <<>> THEN new_comps(comps, i + 1, SubSeq(acc, 1, Len(acc) - 1))
    ELSE new_comps(comps, i + 1, acc)

normpath(path) ==
    IF path = <<"">> THEN <<".">>
    ELSE LET kept == new_comps(path, 1, <<>>)
             root == [i \in 1..initial_slashes(path) |-> ""]
         IN  IF kept # <<>> THEN root \o kept
             ELSE IF root = <<>> THEN <<".">>
             ELSE root \o <<"">>

\* os.path.abspath(path) in a process whose working directory is cwd
abspath(path, cwd) == normpath(IF isabs(path) THEN path ELSE path_join(cwd, path))

\* the components commonpath compares: [c for c in path.split("/") if c and c != "."]
split_path(path) == SelectSeq(path, LAMBDA c : c \notin {"", "."})

\* posixpath.commonpath([a, b]): ValueError when one path is absolute and the other is
\* not; the result starts with one slash when the paths are absolute
commonpath(a, b) ==
    IF isabs(a) # isabs(b) THEN [exc |-> "ValueError", value |-> <<"">>]
    ELSE LET s1 == split_path(a)
             s2 == split_path(b)
             n  == MaxOf({k \in 0..Min(Len(s1), Len(s2)) :
                             \A i \in 1..k : s1[i] = s2[i]})
             common == SubSeq(s1, 1, n)
         IN  [exc |-> None,
              value |-> IF ~isabs(a) THEN (IF common = <<>> THEN <<"">> ELSE common)
                        ELSE IF common = <<>> THEN <<"", "">>
                        ELSE <<"">> \o common]

\* MemorySafetyGuard.validate_path with validate_file_paths = True
validate_path(file_path, working_directory, cwd) ==
    LET working_dir_abs == abspath(working_directory, cwd)
        target_path     == normpath(path_join(working_dir_abs, file_path))
        common          == commonpath(working_dir_abs, target_path)
    IN  IF common.exc # None
        THEN [is_safe |-> FALSE, normalized_path |-> <<"">>, error_message |-> "invalid"]
        ELSE IF common.value = working_dir_abs
        THEN [is_safe |-> TRUE, normalized_path |-> target_path, error_message |-> ""]
        ELSE [is_safe |-> FALSE, normalized_path |-> <<"">>, error_message |-> "escapes"]

\* MemorySafetyGuard.is_path_safe
is_path_safe(file_path, working_directory, cwd) ==
    validate_path(file_path, working_directory, cwd).is_safe

(***************************************************************************)
(* The assembly as a function of the four retrieved lists: every           *)
(* combination of lists and budget is drawn in ContextInit and             *)
(* ContextAssemble applies phases 2 and 3 to it.                           *)
(***************************************************************************)
EmptyMap == [x \in {} |-> None]

ShortText == <<"o", "k", " ">>
MidText   == Fill("m", MidLen)
LongText  == Fill("z", LongLen)

SectionPool == {ShortText, MidText}
HistoryPool == {ShortText, MidText, LongText}
Budgets     == {0, 35, 99, 100, 140, 250, 500}

SeqsUpTo(S, n) == UNION {[1..k -> S] : k \in 0..n}

\* rows as a query returns them: position 1 is the newest (ORDER BY created_at DESC)
RowsOf(kind, cs) ==
    [k \in 1..Len(cs) |-> [id |-> <<kind, k>>, content |-> cs[k],
                           created_at |-> Len(cs) - k]]

Idle == [state |-> "idle"]

ContextInit ==
    /\ users = EmptyMap /\ projects = EmptyMap /\ memories = EmptyMap
    /\ cur_user = NoneRec /\ cur_project = NoneRec
    /\ now = 0 /\ next_id = 1
    /\ ret = [op |-> "none"]
    /\ \E n \in Budgets,
          h \in SeqsUpTo(HistoryPool, MaxHistory),
          c \in SeqsUpTo(SectionPool, MaxSection),
          p \in SeqsUpTo(SectionPool, MaxSection),
          x \in SeqsUpTo(SectionPool, MaxSection) :
            ctx = [state |-> "called", max_chars |-> n,
                   history |-> RowsOf("h", h),
                   corrections |-> RowsOf("c", c),
                   preferences |-> RowsOf("p", p),
                   project_context |-> RowsOf("x", x)]

\* what build_context_string leaves behind when it returns
Returned(call, st) ==
    [state |-> "returned", max_chars |-> call.max_chars,
     history |-> call.history, corrections |-> call.corrections,
     preferences |-> call.preferences, project_context |-> call.project_context,
     parts |-> st.parts,
     joined |-> Concat([i \in 1..Len(st.parts) |-> st.parts[i].text]),
     result |-> Render(st.parts)]

ContextAssemble ==
    /\ ctx.state = "called"
    /\ ctx' = Returned(ctx, Assemble(ctx.history, ctx.corrections, ctx.preferences,
                                     ctx.project_context, ctx.max_chars))
    /\ UNCHANGED <<users, projects, memories, cur_user, cur_project, now, next_id, ret>>

ContextNext == ContextAssemble

ContextSpec == ContextInit /\ [][ContextNext]_vars

(***************************************************************************)
(* Vocabulary of the claims about build_context_string.                    *)
(***************************************************************************)
HasReturned == ctx.state = "returned"

PartsWith(header) == {i \in 1..Len(ctx.parts) : ctx.parts[i].header = header}

FixedHeaders == {LearnedCorrections, UserPreferences, ProjectContext}

RECURSIVE SumLen(_, _)
SumLen(parts, keep) ==
    IF parts = <<>> THEN 0
    ELSE (IF Head(parts).header \in keep THEN Len(Head(parts).text) ELSE 0)
         + SumLen(Tail(parts), keep)

\* characters taken by the fixed sections, i.e. current_chars when the squeeze starts
FixedChars == SumLen(ctx.parts, FixedHeaders)

\* the budget left after the fixed sections
BudgetLeft == ctx.max_chars - FixedChars

\* history item k (1 = newest) is in the Conversation History section of the output
Included(k) ==
    \E i \in PartsWith(ConversationHistory) :
        \E q \in 1..Len(ctx.parts[i].items) : ctx.parts[i].items[q].id = ctx.history[k].id

RECURSIVE FormattedSize(_, _)
\* formatted size (content length plus per-line overhead) of the k newest items
FormattedSize(history, k) ==
    IF k = 0 THEN 0
    ELSE Len(history[k].content) + EntryOverhead + FormattedSize(history, k - 1)

IsPrefix(p, s) == Len(p) <= Len(s) /\ SubSeq(s, 1, Len(p)) = p

NonEmptyInputs ==
    Cardinality({n \in {"history", "corrections", "preferences", "project_context"} :
                    ctx[n] # <<>>})

Rank(header) ==
    CASE header = LearnedCorrections  -> 1
      [] header = UserPreferences     -> 2
      [] header = ProjectContext      -> 3
      [] header = ConversationHistory -> 4

(***************************************************************************)
(* C1: for every budget N >= 0 and every content of the retrieved lists,   *)
(* the string build_context_string(max_chars=N) returns is at most N       *)
(* characters long, before and after the final strip().                    *)
(***************************************************************************)
C1_WithinBudget ==
    HasReturned => /\ Len(ctx.joined) <= ctx.max_chars
                   /\ Len(ctx.result) <= ctx.max_chars

\* a non-empty result from which a section was left out for lack of budget
C1_Witness ==
    /\ HasReturned
    /\ ctx.result # <<>>
    /\ Len(ctx.parts) < NonEmptyInputs
    /\ ctx.max_chars - Len(ctx.joined) < 10

(***************************************************************************)
(* C2: history selection is a contiguous newest-first prefix: if the item  *)
(* at newest-first position k is absent from the output, every item at a   *)
(* position > k is absent too, even one that is smaller and would fit.     *)
(***************************************************************************)
C2_NoGap ==
    HasReturned =>
        \A k, j \in 1..Len(ctx.history) :
            (k < j /\ ~Included(k)) => ~Included(j)

\* the newest item is shown, item k is cut off, and a later, smaller item j that
\* would fit the budget left at the cut is absent as well
C2_Witness ==
    /\ HasReturned
    /\ \E k, j \in 1..Len(ctx.history) :
          /\ 1 < k /\ k < j
          /\ \A i \in 1..(k - 1) : Included(i)
          /\ ~Included(k) /\ ~Included(j)
          /\ Len(ctx.history[j].content) < Len(ctx.history[k].content)
          /\ FormattedSize(ctx.history, k - 1)
               + Len(ctx.history[j].content) + EntryOverhead <= BudgetLeft

(***************************************************************************)
(* C3: corrections cannot be crowded out: when at least one correction is  *)
(* retrieved and the formatted Learned Corrections block alone is at most  *)
(* max_chars long, that block is in the output, whatever the preferences,  *)
(* project context and conversations.                                      *)
(***************************************************************************)
CorrectionsBlock == SectionText(LearnedCorrections, ctx.corrections)

C3_CorrectionsKept ==
    (HasReturned /\ ctx.corrections # <<>> /\ Len(CorrectionsBlock) <= ctx.max_chars)
        => /\ ctx.parts # <<>>
           /\ ctx.parts[1].header = LearnedCorrections
           /\ ctx.parts[1].items = ctx.corrections
           /\ ctx.parts[1].text = CorrectionsBlock
           /\ IsPrefix(Strip(CorrectionsBlock), ctx.result)

\* the corrections are out while competing preferences and history were dropped
C3_Witness ==
    /\ HasReturned
    /\ ctx.corrections # <<>> /\ ctx.preferences # <<>> /\ ctx.history # <<>>
    /\ PartsWith(LearnedCorrections) # {}
    /\ PartsWith(UserPreferences) = {}
    /\ PartsWith(ConversationHistory) = {}

(***************************************************************************)
(* C4: the sections present in an output appear in the fixed order Learned *)
(* Corrections, User Preferences, Project Context, Conversation History;   *)
(* a Learned Corrections header precedes any Conversation History header.  *)
(***************************************************************************)
C4_SectionOrder ==
    HasReturned =>
        /\ \A i, j \in 1..Len(ctx.parts) :
              i < j => Rank(ctx.parts[i].header) < Rank(ctx.parts[j].header)
        /\ \A i \in PartsWith(LearnedCorrections), j \in PartsWith(ConversationHistory) :
              i < j

\* all four sections are out
C4_Witness ==
    /\ HasReturned
    /\ Len(ctx.parts) = 4
    /\ PartsWith(LearnedCorrections) # {} /\ PartsWith(ConversationHistory) # {}

C6_Chronological ==
    HasReturned =>
        \A i \in PartsWith(ConversationHistory) :
            LET items == ctx.parts[i].items
            IN  /\ \A p, q \in 1..Len(items) :
                      p < q => items[p].created_at <= items[q].created_at
                /\ \A p \in 1..Len(items) :
                      items[p] = ctx.history[Len(items) + 1 - p]

\* a history section of at least two conversations
C6_Witness ==
    /\ HasReturned
    /\ \E i \in PartsWith(ConversationHistory) :
          /\ Len(ctx.parts[i].items) >= 2
          /\ ctx.parts[i].items[1].created_at < ctx.parts[i].items[2].created_at


(***************************************************************************)
(* Configuration  (config.py)                                              *)
(***************************************************************************)
MemoryTypes == {"conversation", "user_preference", "project_context",
                "task_result", "correction", "tool_pattern"}
Scopes      == {"user", "project", "global"}

\* RetentionSettings, in days
conversation_ttl    == 7
user_preference_ttl == 90
project_context_ttl == 30
task_result_ttl     == 14
correction_ttl      == 180
tool_pattern_ttl    == 60

\* RetentionSettings.get_ttl
get_ttl(memory_type) ==
    CASE memory_type = "conversation"    -> conversation_ttl
      [] memory_type = "user_preference" -> user_preference_ttl
      [] memory_type = "project_context" -> project_context_ttl
      [] memory_type = "task_result"     -> task_result_ttl
      [] memory_type = "correction"      -> correction_ttl
      [] memory_type = "tool_pattern"    -> tool_pattern_ttl
      [] OTHER                           -> conversation_ttl

\* MemoryConfig.default_user_id
default_user_id == "default_user"

(***************************************************************************)
(* Data model  (models.py).  importance is counted in tenths.              *)
(***************************************************************************)
\* User.create: id = "usr_" + uuid4
User_create(name, uuid, t) ==
    [id |-> "usr_" \o ToString(uuid), name |-> name, created_at |-> t]

\* the directory names of the paths of this model
PathComponents == ("/a/b" :> <<"a", "b">>) @@ ("/c" :> <<"c">>) @@ ("/" :> <<>>)

\* os.path.basename(absolute_path.rstrip("/\\")) or "root"
basename(absolute_path) ==
    IF PathComponents[absolute_path] = <<>> THEN "root"
    ELSE PathComponents[absolute_path][Len(PathComponents[absolute_path])]

\* hashlib.sha256(path.encode()).hexdigest(), taken to be collision-free: each path
\* of the model has a digest of its own, no longer than the 12 characters an id keeps
sha256_hexdigest(absolute_path) ==
    CASE absolute_path = "/a/b" -> "3f9a"
      [] absolute_path = "/c"   -> "b07e"
      [] OTHER                  -> "e3b0"

\* Project.from_path: id = "proj_" + path_hash[:12]
Project_from_path(absolute_path, t) ==
    [id |-> "proj_" \o sha256_hexdigest(absolute_path),
     name |-> basename(absolute_path),
     path_hash |-> sha256_hexdigest(absolute_path),
     last_known_path |-> absolute_path, created_at |-> t]

\* the keyword parameters Memory.create declares
MemoryCreateParams ==
    {"content", "memory_type", "scope", "user_id", "project_id", "importance",
     "tags", "source", "metadata", "expires_at"}

Arg(kwargs, name, default) == IF name \in DOMAIN kwargs THEN kwargs[name] ELSE default

\* "not x" for an Optional[str]: None and the empty string are falsy
Falsy(x) == x = None \/ x = ""

\* Memory.__post_init__: the error raised, or None; first the mutant that checks the
\* importance only
post_init_unscoped(m) ==
    IF ~(0 <= m.importance /\ m.importance <= 10) THEN "ValueError"
    ELSE None

post_init(m) ==
    IF ~(0 <= m.importance /\ m.importance <= 10) THEN "ValueError"
    ELSE IF m.scope = "user" /\ Falsy(m.user_id) THEN "ValueError"
    ELSE IF m.scope = "project" /\ Falsy(m.project_id) THEN "ValueError"
    ELSE None

\* Memory(**fields): the generated __init__ sets the fields and calls __post_init__
Memory(fields) ==
    IF post_init(fields) # None
    THEN [exc |-> post_init(fields), value |-> NoneRec]
    ELSE [exc |-> None, value |-> fields]

\* Memory.create called with keyword arguments kwargs: Python binds the arguments to
\* the declared parameters before the body runs, and a keyword that is no parameter
\* raises TypeError.  The body never passes retention_policy, so the dataclass
\* default applies.
Memory_create(kwargs, uuid, t) ==
    IF ~(DOMAIN kwargs \subseteq MemoryCreateParams)
    THEN [exc |-> "TypeError", value |-> NoneRec]
    ELSE Memory([id               |-> "mem_" \o ToString(uuid),
                 content          |-> kwargs.content,
                 memory_type      |-> kwargs.memory_type,
                 scope            |-> kwargs.scope,
                 retention_policy |-> "short_term",
                 user_id          |-> Arg(kwargs, "user_id", None),
                 project_id       |-> Arg(kwargs, "project_id", None),
                 created_at       |-> t,
                 updated_at       |-> t,
                 expires_at       |-> Arg(kwargs, "expires_at", NoTime),
                 importance       |-> Arg(kwargs, "importance", 5),
                 access_count     |-> 0,
                 last_accessed_at |-> NoTime,
                 tags             |-> Arg(kwargs, "tags", <<>>),
                 source           |-> Arg(kwargs, "source", "unknown"),
                 metadata         |-> Arg(kwargs, "metadata", <<>>)])

\* Memory.mark_accessed at time t
mark_accessed(m, t) ==
    [m EXCEPT !.access_count = m.access_count + 1, !.last_accessed_at = t]

\* Memory.is_expired at time t
is_expired(m, t) == IF m.expires_at = NoTime THEN FALSE ELSE t > m.expires_at

\* datetime.isoformat() of an aware UTC datetime: the instant followed by the offset
isoformat(dt) == <<dt, "+00:00">>

\* datetime.fromisoformat(text)
fromisoformat(text) == text[1]

\* "x.isoformat() if x else None": a datetime is never falsy
isoformat_or_none(dt) == IF dt = NoTime THEN None ELSE isoformat(dt)

\* parse_datetime of Memory.from_dict
parse_datetime(value) == IF value = None THEN NoTime ELSE fromisoformat(value)

\* Memory.to_dict
Memory_to_dict(m) ==
    [id               |-> m.id,
     content          |-> m.content,
     memory_type      |-> m.memory_type,
     scope            |-> m.scope,
     user_id          |-> m.user_id,
     project_id       |-> m.project_id,
     created_at       |-> isoformat(m.created_at),
     updated_at       |-> isoformat(m.updated_at),
     expires_at       |-> isoformat_or_none(m.expires_at),
     importance       |-> m.importance,
     access_count     |-> m.access_count,
     last_accessed_at |-> isoformat_or_none(m.last_accessed_at),
     tags             |-> m.tags,
     source           |-> m.source,
     metadata         |-> m.metadata]

\* Memory.from_dict: retention_policy is not read, so the dataclass default applies
Memory_from_dict(data) ==
    Memory([id               |-> data.id,
            content          |-> data.content,
            memory_type      |-> data.memory_type,
            scope            |-> data.scope,
            retention_policy |-> "short_term",
            user_id          |-> Arg(data, "user_id", None),
            project_id       |-> Arg(data, "project_id", None),
            created_at       |-> parse_datetime(data.created_at),
            updated_at       |-> parse_datetime(data.updated_at),
            expires_at       |-> parse_datetime(Arg(data, "expires_at", None)),
            importance       |-> Arg(data, "importance", 5),
            access_count     |-> Arg(data, "access_count", 0),
            last_accessed_at |-> parse_datetime(Arg(data, "last_accessed_at", None)),
            tags             |-> Arg(data, "tags", <<>>),
            source           |-> Arg(data, "source", "unknown"),
            metadata         |-> Arg(data, "metadata", <<>>)])

\* User.to_dict, User.from_dict
User_to_dict(u) == [id |-> u.id, name |-> u.name, created_at |-> isoformat(u.created_at)]

User_from_dict(data) ==
    [id |-> data.id, name |-> data.name, created_at |-> fromisoformat(data.created_at)]

\* Project.to_dict, Project.from_dict
Project_to_dict(p) ==
    [id |-> p.id, name |-> p.name, path_hash |-> p.path_hash,
     last_known_path |-> p.last_known_path, created_at |-> isoformat(p.created_at)]

Project_from_dict(data) ==
    [id |-> data.id, name |-> data.name, path_hash |-> data.path_hash,
     last_known_path |-> data.last_known_path,
     created_at |-> fromisoformat(data.created_at)]

(***************************************************************************)
(* SQLite store  (stores/sqlite.py)                                        *)
(***************************************************************************)
Range(f) == {f[x] : x \in DOMAIN f}

\* INSERT OR REPLACE with the primary key id
Upsert(table, row) == (row.id :> row) @@ table

\* the rows of table left when those with the ids in gone are deleted
Without(table, gone) == [k \in DOMAIN table \ gone |-> table[k]]

\* json.dumps / json.loads of a list of strings or of a dict of strings
json_dumps(x) == <<"json", x>>

json_loads(text) == text[2]

\* SQLiteMemoryStore.store, step 1: the column values of a memory
memory_values(memory) ==
    [id               |-> memory.id,
     content          |-> memory.content,
     scope            |-> memory.scope,
     memory_type      |-> memory.memory_type,
     retention_policy |-> memory.retention_policy,
     user_id          |-> memory.user_id,
     project_id       |-> memory.project_id,
     tags             |-> json_dumps(memory.tags),
     metadata         |-> json_dumps(memory.metadata),
     created_at       |-> isoformat(memory.created_at),
     updated_at       |-> isoformat(memory.updated_at),
     expires_at       |-> isoformat_or_none(memory.expires_at),
     last_accessed_at |-> isoformat_or_none(memory.last_accessed_at),
     access_count     |-> memory.access_count,
     importance       |-> memory.importance,
     source           |-> memory.source]

\* SQLiteMemoryStore._row_to_memory, with the mutant that reads the columns
\* access_count and importance in the other order
row_to_memory_swapped(row) ==
    Memory([id               |-> row.id,
            content          |-> row.content,
            memory_type      |-> row.memory_type,
            scope            |-> row.scope,
            retention_policy |-> row.retention_policy,
            user_id          |-> row.user_id,
            project_id       |-> row.project_id,
            created_at       |-> fromisoformat(row.created_at),
            updated_at       |-> fromisoformat(row.updated_at),
            expires_at       |-> parse_datetime(row.expires_at),
            access_count     |-> row.importance,
            last_accessed_at |-> parse_datetime(row.last_accessed_at),
            tags             |-> IF Falsy(row.tags) THEN <<>> ELSE json_loads(row.tags),
            metadata         |-> IF Falsy(row.metadata) THEN <<>>
                                 ELSE json_loads(row.metadata),
            importance       |-> row.access_count,
            source           |-> row.source]).value

row_to_memory(row) ==
    Memory([id               |-> row.id,
            content          |-> row.content,
            memory_type      |-> row.memory_type,
            scope            |-> row.scope,
            retention_policy |-> row.retention_policy,
            user_id          |-> row.user_id,
            project_id       |-> row.project_id,
            created_at       |-> fromisoformat(row.created_at),
            updated_at       |-> fromisoformat(row.updated_at),
            expires_at       |-> parse_datetime(row.expires_at),
            access_count     |-> row.access_count,
            last_accessed_at |-> parse_datetime(row.last_accessed_at),
            tags             |-> IF Falsy(row.tags) THEN <<>> ELSE json_loads(row.tags),
            metadata         |-> IF Falsy(row.metadata) THEN <<>>
                                 ELSE json_loads(row.metadata),
            importance       |-> row.importance,
            source           |-> row.source]).value

\* PRAGMA foreign_keys = ON with FOREIGN KEY(user_id), FOREIGN KEY(project_id): a
\* non-NULL key must name a row of the parent table
ForeignKeysHold(memory, user_rows, project_rows) ==
    /\ memory.user_id = None \/ memory.user_id \in DOMAIN user_rows
    /\ memory.project_id = None \/ memory.project_id \in DOMAIN project_rows

\* SQLiteMemoryStore.store: the new table and the error raised (None if stored),
\* with the mutant that runs without PRAGMA foreign_keys = ON
store_unchecked(table, user_rows, project_rows, memory) ==
    [exc |-> None, memories |-> Upsert(table, memory_values(memory))]

store(table, user_rows, project_rows, memory) ==
    IF ForeignKeysHold(memory, user_rows, project_rows)
    THEN [exc |-> None, memories |-> Upsert(table, memory_values(memory))]
    ELSE [exc |-> "IntegrityError", memories |-> table]

\* SQLiteMemoryStore.get: None when no row has the id
get(table, memory_id) ==
    IF memory_id \in DOMAIN table THEN row_to_memory(table[memory_id]) ELSE NoneRec

\* MemoryStore.get_and_track at time t: the memory returned and the table it leaves
get_and_track_untracked(table, user_rows, project_rows, memory_id, t) ==
    [memory |-> get(table, memory_id), exc |-> None, memories |-> table]

get_and_track(table, user_rows, project_rows, memory_id, t) ==
    LET memory == get(table, memory_id)
    IN  IF memory = NoneRec
        THEN [memory |-> NoneRec, exc |-> None, memories |-> table]
        ELSE LET stored == store(table, user_rows, project_rows,
                                 mark_accessed(memory, t))
             IN  [memory |-> mark_accessed(memory, t), exc |-> stored.exc,
                  memories |-> stored.memories]

\* SQLiteMemoryStore.store_user and _row_to_user
user_values(user) ==
    [id |-> user.id, display_name |-> user.name, created_at |-> isoformat(user.created_at)]

row_to_user(row) ==
    [id |-> row.id, name |-> row.display_name, created_at |-> fromisoformat(row.created_at)]

store_user_insert_only(user_rows, user) ==
    IF user.id \in DOMAIN user_rows THEN user_rows ELSE Upsert(user_rows, user_values(user))

store_user(user_rows, user) == Upsert(user_rows, user_values(user))

get_user(user_rows, user_id) ==
    IF user_id \in DOMAIN user_rows THEN row_to_user(user_rows[user_id]) ELSE NoneRec

\* SQLiteMemoryStore.store_project and _row_to_project
project_values(project) ==
    [id |-> project.id, name |-> project.name, path_hash |-> project.path_hash,
     last_known_path |-> project.last_known_path,
     created_at |-> isoformat(project.created_at)]

row_to_project(row) ==
    [id |-> row.id, name |-> row.name, path_hash |-> row.path_hash,
     last_known_path |-> row.last_known_path,
     created_at |-> fromisoformat(row.created_at)]

\* INSERT OR REPLACE INTO projects: the rows that hold the new row's id or its
\* path_hash (UNIQUE) are deleted and the new row is inserted; the foreign keys of
\* table memories are checked when the statement ends
store_project(project_rows, memory_rows, project) ==
    LET conflicting == {k \in DOMAIN project_rows :
                           \/ k = project.id
                           \/ project_rows[k].path_hash = project.path_hash}
        replaced    == Upsert(Without(project_rows, conflicting), project_values(project))
    IN  IF \A m \in Range(memory_rows) :
               m.project_id = None \/ m.project_id \in DOMAIN replaced
        THEN [exc |-> None, projects |-> replaced]
        ELSE [exc |-> "IntegrityError", projects |-> project_rows]

get_project(project_rows, project_id) ==
    IF project_id \in DOMAIN project_rows THEN row_to_project(project_rows[project_id])
    ELSE NoneRec

\* datetime.now(): the wall clock of the local zone, utcoffset hours ahead of UTC,
\* read at the instant t
datetime_now(t, utcoffset) == t + utcoffset

\* datetime.now().isoformat(): local time without an offset; t is the reading of
\* datetime.now()
local_isoformat(t) == <<t, "">>

\* the order of SQLite on two timestamp texts: the instants decide, and on equal
\* instants the text without an offset is a proper prefix of the other
TextLess(a, b) == a[1] < b[1] \/ (a[1] = b[1] /\ Len(a[2]) < Len(b[2]))

\* "(expires_at IS NULL OR expires_at > ?)" against datetime.now().isoformat()
NotExpired(row, t) ==
    row.expires_at = None \/ TextLess(local_isoformat(t), row.expires_at)

\* the fields MemoryQuery declares
MemoryQueryFields ==
    {"user_id", "project_id", "memory_types", "scopes", "retention_policies", "tags",
     "source", "created_after", "created_before", "include_expired", "limit", "offset",
     "order_by", "order_desc"}

\* MemoryQuery(**kwargs): a keyword that is no field raises TypeError; an unset
\* list is the empty set
MemoryQuery(kwargs) ==
    IF ~(DOMAIN kwargs \subseteq MemoryQueryFields)
    THEN [exc |-> "TypeError", value |-> NoneRec]
    ELSE [exc |-> None,
          value |-> [user_id            |-> Arg(kwargs, "user_id", None),
                     project_id         |-> Arg(kwargs, "project_id", None),
                     memory_types       |-> Arg(kwargs, "memory_types", {}),
                     scopes             |-> Arg(kwargs, "scopes", {}),
                     retention_policies |-> Arg(kwargs, "retention_policies", {}),
                     tags               |-> Arg(kwargs, "tags", {}),
                     source             |-> Arg(kwargs, "source", None),
                     created_after      |-> Arg(kwargs, "created_after", NoTime),
                     created_before     |-> Arg(kwargs, "created_before", NoTime),
                     include_expired    |-> Arg(kwargs, "include_expired", FALSE),
                     limit              |-> Arg(kwargs, "limit", 100),
                     offset             |-> Arg(kwargs, "offset", 0),
                     order_by           |-> Arg(kwargs, "order_by", "created_at"),
                     order_desc         |-> Arg(kwargs, "order_desc", TRUE)]]

\* _build_query_conditions: a falsy field adds no condition, and no condition is
\* built from the fields tags and source; t is the reading of datetime.now().  First
\* the mutant that builds no condition from user_id
Matches_any_user(row, q, t) ==
    /\ Falsy(q.project_id) \/ row.project_id = q.project_id
    /\ q.scopes = {} \/ row.scope \in q.scopes
    /\ q.memory_types = {} \/ row.memory_type \in q.memory_types
    /\ q.retention_policies = {} \/ row.retention_policy \in q.retention_policies
    /\ q.created_after = NoTime \/ TextLess(isoformat(q.created_after), row.created_at)
    /\ q.created_before = NoTime \/ TextLess(row.created_at, isoformat(q.created_before))
    /\ q.include_expired \/ NotExpired(row, t)

Matches(row, q, t) ==
    /\ Falsy(q.user_id) \/ row.user_id = q.user_id
    /\ Falsy(q.project_id) \/ row.project_id = q.project_id
    /\ q.scopes = {} \/ row.scope \in q.scopes
    /\ q.memory_types = {} \/ row.memory_type \in q.memory_types
    /\ q.retention_policies = {} \/ row.retention_policy \in q.retention_policies
    /\ q.created_after = NoTime \/ TextLess(isoformat(q.created_after), row.created_at)
    /\ q.created_before = NoTime \/ TextLess(row.created_at, isoformat(q.created_before))
    /\ q.include_expired \/ NotExpired(row, t)

IsPermutation(seq, S) ==
    /\ Len(seq) = Cardinality(S)
    /\ \A x \in S : \E i \in 1..Len(seq) : seq[i] = x

\* the order of SQLite on the column order_by of two rows: text order on the timestamp
\* columns, numeric order on importance and access_count
ColumnLess(a, b, order_by) ==
    IF order_by \in {"created_at", "updated_at"} THEN TextLess(a[order_by], b[order_by])
    ELSE a[order_by] < b[order_by]

\* SQLiteMemoryStore.query: ORDER BY q.order_by DESC or ASC, LIMIT q.limit OFFSET
\* q.offset; rows equal in the ordering column come in an order SQL leaves open, so
\* every such order is a result
query(table, q, t) ==
    LET hits == {r \in Range(table) : Matches(r, q, t)}
    IN  {[i \in 1..Max(0, Min(q.limit, Len(seq) - q.offset)) |->
             row_to_memory(seq[i + q.offset])] :
            seq \in {o \in [1..Cardinality(hits) -> hits] :
                        /\ IsPermutation(o, hits)
                        /\ \A i, j \in 1..Len(o) :
                              i < j => IF q.order_desc
                                       THEN ~ColumnLess(o[i], o[j], q.order_by)
                                       ELSE ~ColumnLess(o[j], o[i], q.order_by)}}

\* SQLiteMemoryStore.delete: the table left and whether a row was deleted
delete(table, memory_id) ==
    [memories |-> Without(table, {memory_id}), deleted |-> memory_id \in DOMAIN table]

\* SQLiteMemoryStore.count: COUNT(*) with the conditions of the query, all rows when
\* the query is None
count(table, q, t) ==
    IF q = NoneRec THEN Cardinality(DOMAIN table)
    ELSE Cardinality({k \in DOMAIN table : Matches(table[k], q, t)})

\* SQLiteMemoryStore.delete_by_query: DELETE with the conditions of the query, without
\* its limit and offset; the table left and the rowcount
delete_by_query(table, q, t) ==
    LET gone == {k \in DOMAIN table : Matches(table[k], q, t)}
    IN  [memories |-> Without(table, gone), rowcount |-> Cardinality(gone)]

\* SQLiteMemoryStore.delete_expired at the instant t: "expires_at IS NOT NULL AND
\* expires_at < ?" against datetime.now(timezone.utc).isoformat(), with the mutant
\* that deletes the rows expiring at t as well
delete_expired_inclusive(table, t) ==
    LET gone == {k \in DOMAIN table :
                    /\ table[k].expires_at # None
                    /\ ~TextLess(isoformat(t), table[k].expires_at)}
    IN  [memories |-> Without(table, gone), rowcount |-> Cardinality(gone)]

delete_expired(table, t) ==
    LET gone == {k \in DOMAIN table :
                    /\ table[k].expires_at # None
                    /\ TextLess(table[k].expires_at, isoformat(t))}
    IN  [memories |-> Without(table, gone), rowcount |-> Cardinality(gone)]

\* SQLiteMemoryStore.get_user_by_name: fetchone() of the rows with that display_name
get_user_by_name(user_rows, name) ==
    {row_to_user(r) : r \in {x \in Range(user_rows) : x.display_name = name}}

\* SQLiteMemoryStore.get_project_by_path
get_project_by_path(project_rows, absolute_path) ==
    {row_to_project(r) :
        r \in {x \in Range(project_rows) :
                  x.path_hash = sha256_hexdigest(absolute_path)}}


(***************************************************************************)
(* Memory Manager  (manager.py)                                            *)
(***************************************************************************)
MaxMemories == 1    \* most rows of table memories
MaxClock    == 1    \* last day the clock reaches

UserNames == {default_user_id, "nick"}
Paths     == {"/a/b"}
IdentityPaths == {"/a/b", "/c"}

\* raw texts the agent hands to the store_* helpers
RawTexts ==
    { <<"S", "Y", "S", "T", "E", "M", ":", " ", "p", "w", "d", "=", "a", "b", "c">>,
      <<"h", "i">> }
Replies == { <<"o", "k">> }
ToolNames    == { <<"g", "r", "e", "p">> }
Importances  == {5, 12}
MainBudgets  == {35, 500}
PortTexts    == {ShortText}
PortTypes    == {"correction", "user_preference", "project_context"}

UserPrefix       == <<"U", "s", "e", "r", ":", " ">>
AssistantPrefix  == <<"\n", "A", "s", "s", "i", "s", "t", "a", "n", "t", ":", " ">>
OriginalPrefix   == <<"O", "r", "i", "g", "i", "n", "a", "l", ":", " ">>
CorrectionPrefix == <<"\n", "C", "o", "r", "r", "e", "c", "t", "i", "o", "n", ":", " ">>
ToolPrefix       == <<"T", "o", "o", "l", ":", " ">>
PatternPrefix    == <<"\n", "P", "a", "t", "t", "e", "r", "n", ":", " ">>
ResultPrefix     == <<"\n", "R", "e", "s", "u", "l", "t", ":", " ">>
Success          == <<"S", "u", "c", "c", "e", "s", "s">>
Failure          == <<"F", "a", "i", "l", "u", "r", "e">>

\* the content each helper builds from its arguments
conversation_content(user_message, assistant_response) ==
    UserPrefix \o user_message \o AssistantPrefix \o assistant_response

correction_content(original_response, correction) ==
    OriginalPrefix \o original_response \o CorrectionPrefix \o correction

tool_pattern_content(tool_name, pattern, success) ==
    ToolPrefix \o tool_name \o PatternPrefix \o pattern
        \o ResultPrefix \o (IF success THEN Success ELSE Failure)

\* every content the helpers of this model hand to the Safety Guard
HelperContents ==
    RawTexts
    \cup {conversation_content(u, a) : u \in RawTexts, a \in Replies}
    \cup {correction_content(o, c) : o \in Replies, c \in RawTexts}
    \cup {tool_pattern_content(n, x, b) : n \in ToolNames, x \in RawTexts, b \in BOOLEAN}

\* sanitize_content(content) tabulated over HelperContents, so that it is computed
\* once per content and not once per step
SanitizedTable == [content \in HelperContents |-> sanitize_content(content, 0)]

\* self.safety.sanitize_content(content)
safety_sanitize_content(content) ==
    IF content \in HelperContents THEN SanitizedTable[content]
    ELSE sanitize_content(content, 0)

\* uuid.uuid4() for a user: rows of table users are never deleted, so their number
\* plus one is an id not in use
user_uuid4(user_rows) == Cardinality(DOMAIN user_rows) + 1

\* MemoryManager.get_or_create_user: the user returned and the users table it leaves,
\* with the mutant that creates a user without looking the name up
get_or_create_user_always_new(user_rows, name, uuid, t) ==
    [user |-> User_create(name, uuid, t),
     users |-> store_user(user_rows, User_create(name, uuid, t)), created |-> TRUE]

get_or_create_user(user_rows, name, uuid, t) ==
    LET existing == get_user_by_name(user_rows, name)
    IN  IF existing # {}
        THEN [user |-> CHOOSE u \in existing : TRUE, users |-> user_rows, created |-> FALSE]
        ELSE LET new_user == User_create(name, uuid, t)
             IN  [user |-> new_user, users |-> store_user(user_rows, new_user),
                  created |-> TRUE]

\* the current_user property: lazily get-or-creates the default user; first the
\* mutant that resolves the default user whatever is cached
current_user_uncached(cached, user_rows, uuid, t) ==
    get_or_create_user(user_rows, default_user_id, uuid, t)

current_user(cached, user_rows, uuid, t) ==
    IF cached.id # None
    THEN [user |-> cached, users |-> user_rows, created |-> FALSE]
    ELSE get_or_create_user(user_rows, default_user_id, uuid, t)

\* MemoryManager.get_or_create_project: the project returned, the projects table it
\* leaves and the error raised, with the mutant that never looks the path up and
\* numbers the projects
get_or_create_project_always_new(project_rows, memory_rows, path, t) ==
    LET new_project == [Project_from_path(path, t) EXCEPT
                           !.id = "proj_" \o ToString(Cardinality(DOMAIN project_rows))]
    IN  [project |-> new_project, exc |-> None,
         projects |-> Upsert(project_rows, project_values(new_project))]

get_or_create_project(project_rows, memory_rows, path, t) ==
    LET existing == get_project_by_path(project_rows, path)
    IN  IF existing # {}
        THEN [project |-> CHOOSE x \in existing : TRUE, exc |-> None,
              projects |-> project_rows]
        ELSE LET new_project == Project_from_path(path, t)
                 stored      == store_project(project_rows, memory_rows, new_project)
             IN  [project |-> IF stored.exc = None THEN new_project ELSE NoneRec,
                  exc |-> stored.exc, projects |-> stored.projects]

\* policy_map.get(memory_type, RetentionPolicy.SHORT_TERM)
policy_map(memory_type) ==
    CASE memory_type = "user_preference" -> "long_term"
      [] memory_type = "correction"      -> "long_term"
      [] memory_type = "project_context" -> "medium_term"
      [] memory_type = "tool_pattern"    -> "medium_term"
      [] memory_type = "task_result"     -> "short_term"
      [] memory_type = "conversation"    -> "short_term"
      [] OTHER                           -> "short_term"

\* the keyword arguments _create_and_store hands to Memory.create
CreateKwargs(sanitized_content, memory_type, scope, user_id, project_id, importance, tags, expires_at, policy) ==
    [content |-> sanitized_content, memory_type |-> memory_type, scope |-> scope,
     user_id |-> user_id, project_id |-> project_id, importance |-> importance,
     tags |-> tags, metadata |-> <<>>, expires_at |-> expires_at,
     retention_policy |-> policy]

\* MemoryManager._create_and_store, as the step every store_* helper ends in
create_and_store(op, content, memory_type, scope, importance, tags) ==
    LET sanitized_content == safety_sanitize_content(content).content
        cu         == current_user(cur_user, users, user_uuid4(users), now)
        expires_at == now + get_ttl(memory_type)
        created    == Memory_create(
                          CreateKwargs(sanitized_content, memory_type, scope, cu.user.id,
                                       cur_project.id, importance, tags, expires_at,
                                       policy_map(memory_type)),
                          next_id, now)
        stored     == IF created.exc = None
                      THEN store(memories, cu.users, projects, created.value)
                      ELSE [exc |-> created.exc, memories |-> memories]
    IN  /\ Cardinality(DOMAIN memories) < MaxMemories
        /\ users' = cu.users
        /\ cur_user' = cu.user
        /\ next_id' = IF stored.exc = None THEN next_id + 1 ELSE next_id
        /\ memories' = stored.memories
        /\ ret' = [op |-> op, exc |-> stored.exc,
                   value |-> IF stored.exc = None THEN created.value ELSE NoneRec,
                   content |-> content, importance |-> importance]
        /\ ctx' = Idle
        /\ UNCHANGED <<projects, cur_project, now>>

\* store_conversation(user_message, assistant_response, importance)
StoreConversation ==
    \E user_message \in RawTexts, assistant_response \in Replies,
       importance \in Importances :
        create_and_store("store_conversation",
                         conversation_content(user_message, assistant_response),
                         "conversation",
                         IF cur_project.id # None THEN "project" ELSE "user",
                         importance, <<"chat">>)

\* store_user_preference(preference, importance)
StoreUserPreference ==
    \E preference \in RawTexts, importance \in Importances :
        create_and_store("store_user_preference", preference, "user_preference", "user",
                         importance, <<"preference", "personalization">>)

\* store_project_context(context, importance)
StoreProjectContext ==
    \E context \in RawTexts, importance \in Importances :
        create_and_store("store_project_context", context, "project_context", "project",
                         importance, <<"context", "architecture">>)

\* store_learned_correction(original_response, correction, importance)
StoreLearnedCorrection ==
    \E original_response \in Replies, correction \in RawTexts,
       importance \in Importances :
        create_and_store("store_learned_correction",
                         correction_content(original_response, correction),
                         "correction", "user", importance, <<"correction", "learning">>)

\* store_tool_pattern(tool_name, pattern, success, importance)
StoreToolPattern ==
    \E tool_name \in ToolNames, pattern \in RawTexts, success \in BOOLEAN,
       importance \in Importances :
        create_and_store("store_tool_pattern",
                         tool_pattern_content(tool_name, pattern, success),
                         "tool_pattern", "global", importance, <<"tool", "pattern", tool_name>>)

\* get_recent_conversations(limit): MemoryQuery is built from the keyword arguments
\* after they are evaluated; the rows are every order the store may answer with
get_recent_conversations(table, user, project, limit, t) ==
    LET q == MemoryQuery([user_id |-> user.id, project_id |-> project.id,
                          include_no_project |-> TRUE,
                          memory_types |-> {"conversation"}, limit |-> limit])
    IN  IF q.exc # None THEN [exc |-> q.exc, rows |-> {}]
        ELSE [exc |-> None, rows |-> query(table, q.value, t)]

\* get_relevant_corrections(limit = 10)
get_relevant_corrections(table, user, t) ==
    query(table, MemoryQuery([user_id |-> user.id, memory_types |-> {"correction"},
                              limit |-> 10]).value, t)

\* get_user_preferences()
get_user_preferences(table, user, t) ==
    query(table, MemoryQuery([user_id |-> user.id,
                              memory_types |-> {"user_preference"}]).value, t)

\* get_project_context(): the empty list when no project is active
get_project_context(table, user, project, t) ==
    IF project.id = None THEN {<<>>}
    ELSE query(table, MemoryQuery([user_id |-> user.id, project_id |-> project.id,
                                   memory_types |-> {"project_context"}]).value, t)

\* build_context_string(include_history, max_chars): phase 1 reads current_user (and
\* so may create the default user) before the first MemoryQuery is constructed
BuildContextString ==
    \E include_history \in BOOLEAN, max_chars \in MainBudgets :
        LET cu      == current_user(cur_user, users, user_uuid4(users), now)
            fetched == IF include_history
                       THEN get_recent_conversations(memories, cu.user, cur_project,
                                                     HistoryBatch, now)
                       ELSE [exc |-> None, rows |-> {<<>>}]
        IN  /\ users' = cu.users
            /\ cur_user' = cu.user
            /\ ret' = [op |-> "build_context_string", exc |-> fetched.exc]
            /\ IF fetched.exc # None
               THEN ctx' = [state |-> "raised", exc |-> fetched.exc, max_chars |-> max_chars]
               ELSE \E history \in fetched.rows,
                       corrections \in get_relevant_corrections(memories, cu.user, now),
                       preferences \in get_user_preferences(memories, cu.user, now),
                       project_context \in get_project_context(memories, cu.user,
                                                               cur_project, now) :
                        ctx' = Returned([max_chars |-> max_chars, history |-> history,
                                         corrections |-> corrections,
                                         preferences |-> preferences,
                                         project_context |-> project_context],
                                        Assemble(history, corrections, preferences,
                                                 project_context, max_chars))
            /\ UNCHANGED <<projects, memories, cur_project, now, next_id>>

\* the values of limit that callers pass
Limits == {1, HistoryBatch}

\* get_recent_conversations(limit, include_project): current_project is read first,
\* then current_user (which may create the default user), then MemoryQuery is built
GetRecentConversations ==
    \E limit \in Limits, include_project \in BOOLEAN :
        LET query_project == IF include_project THEN cur_project ELSE NoneRec
            cu      == current_user(cur_user, users, user_uuid4(users), now)
            fetched == get_recent_conversations(memories, cu.user, query_project,
                                                limit, now)
        IN  /\ users' = cu.users
            /\ cur_user' = cu.user
            /\ \E value \in (IF fetched.exc # None THEN {<<>>} ELSE fetched.rows) :
                    ret' = [op |-> "get_recent_conversations", exc |-> fetched.exc,
                            limit |-> limit, include_project |-> include_project,
                            value |-> value]
            /\ ctx' = Idle
            /\ UNCHANGED <<projects, memories, cur_project, now, next_id>>

\* the attributes of a User value: the dataclass declares id, name and created_at
UserAttributes == {"id", "name", "created_at"}

\* user.<attribute>: AttributeError for an attribute the dataclass does not declare
getattr(user, attribute) ==
    IF attribute \in UserAttributes
    THEN [exc |-> None, value |-> user[attribute]]
    ELSE [exc |-> "AttributeError", value |-> None]

\* the tags callers add
UserTags == {"power_user"}

\* add_user_tag(tag): current_user is read first (and so may create the default
\* user), then its attribute tags; when that read succeeds and the tag is new, the
\* copy with the tag is stored and becomes the current user
AddUserTag ==
    \E tag \in UserTags :
        LET cu      == current_user(cur_user, users, user_uuid4(users), now)
            tags    == getattr(cu.user, "tags")
            updated == [tags |-> Append(tags.value, tag)] @@ cu.user
        IN  /\ IF tags.exc # None
               THEN /\ users' = cu.users
                    /\ cur_user' = cu.user
                    /\ ret' = [op |-> "add_user_tag", exc |-> tags.exc, tag |-> tag,
                               value |-> NoneRec]
               ELSE IF \E i \in 1..Len(tags.value) : tags.value[i] = tag
               THEN /\ users' = cu.users
                    /\ cur_user' = cu.user
                    /\ ret' = [op |-> "add_user_tag", exc |-> None, tag |-> tag,
                               value |-> cu.user]
               ELSE /\ users' = store_user(cu.users, updated)
                    /\ cur_user' = updated
                    /\ ret' = [op |-> "add_user_tag", exc |-> None, tag |-> tag,
                               value |-> updated]
            /\ ctx' = Idle
            /\ UNCHANGED <<projects, memories, cur_project, now, next_id>>

\* get_or_create_user(name)
GetOrCreateUser ==
    \E name \in UserNames :
        LET r == get_or_create_user(users, name, user_uuid4(users), now)
        IN  /\ users' = r.users
            /\ ret' = [op |-> "get_or_create_user", exc |-> None, name |-> name,
                       value |-> r.user]
            /\ ctx' = Idle
            /\ UNCHANGED <<projects, memories, cur_user, cur_project, now, next_id>>

\* reading the property current_user
CurrentUser ==
    LET cu == current_user(cur_user, users, user_uuid4(users), now)
    IN  /\ users' = cu.users
        /\ cur_user' = cu.user
        /\ ret' = [op |-> "current_user", exc |-> None, value |-> cu.user]
        /\ ctx' = Idle
        /\ UNCHANGED <<projects, memories, cur_project, now, next_id>>

\* set_current_user(user), with a user a get_or_create_user call returned
SetCurrentUser ==
    \E user \in {row_to_user(r) : r \in Range(users)} :
        /\ cur_user' = user
        /\ ret' = [op |-> "set_current_user", exc |-> None, arg |-> user]
        /\ ctx' = Idle
        /\ UNCHANGED <<users, projects, memories, cur_project, now, next_id>>

\* get_or_create_project(path), with path one of paths
GetOrCreateProjectIn(paths) ==
    \E path \in paths :
        LET r == get_or_create_project(projects, memories, path, now)
        IN  /\ projects' = r.projects
            /\ ret' = [op |-> "get_or_create_project", exc |-> r.exc, path |-> path,
                       value |-> r.project]
            /\ ctx' = Idle
            /\ UNCHANGED <<users, memories, cur_user, cur_project, now, next_id>>

GetOrCreateProject == GetOrCreateProjectIn(Paths)

\* set_current_project(project), None included
SetCurrentProject ==
    \E project \in {row_to_project(r) : r \in Range(projects)} \cup {NoneRec} :
        /\ cur_project' = project
        /\ ret' = [op |-> "set_current_project", exc |-> None]
        /\ ctx' = Idle
        /\ UNCHANGED <<users, projects, memories, cur_user, now, next_id>>

\* Memory.create(...) followed by store.store(memory), the store being used directly
PortStore ==
    \E content \in PortTexts, memory_type \in PortTypes,
       user_id \in DOMAIN users \cup {"usr_0"},
       project_id \in DOMAIN projects \cup {None},
       expires \in BOOLEAN :
        LET created == Memory_create(
                           [content |-> content, memory_type |-> memory_type,
                            scope |-> "global", user_id |-> user_id,
                            project_id |-> project_id,
                            expires_at |-> IF expires THEN now ELSE NoTime],
                           next_id, now)
            stored  == IF created.exc = None
                       THEN store(memories, users, projects, created.value)
                       ELSE [exc |-> created.exc, memories |-> memories]
        IN  /\ Cardinality(DOMAIN memories) < MaxMemories
            /\ memories' = stored.memories
            /\ next_id' = IF stored.exc = None THEN next_id + 1 ELSE next_id
            /\ ret' = [op |-> "store", exc |-> stored.exc]
            /\ ctx' = Idle
            /\ UNCHANGED <<users, projects, cur_user, cur_project, now>>

\* MemoryManager.initialize(config, user_name, project_path) on the database in use:
\* a new Manager, with nothing cached, over the tables as they are
InitializeIn(paths) ==
    \E user_name \in UserNames \cup {None}, project_path \in paths \cup {None} :
        LET u == IF user_name # None
                 THEN get_or_create_user(users, user_name, user_uuid4(users), now)
                 ELSE [user |-> NoneRec, users |-> users, created |-> FALSE]
            x == IF project_path # None
                 THEN get_or_create_project(projects, memories, project_path, now)
                 ELSE [project |-> NoneRec, exc |-> None, projects |-> projects]
        IN  /\ users' = u.users
            /\ projects' = x.projects
            /\ cur_user' = u.user
            /\ cur_project' = x.project
            /\ ret' = [op |-> "initialize", exc |-> x.exc, user_name |-> user_name,
                       project_path |-> project_path]
            /\ ctx' = Idle
            /\ UNCHANGED <<memories, now, next_id>>

Initialize == InitializeIn(Paths)

\* a day passes
Tick ==
    /\ now < MaxClock
    /\ now' = now + 1
    /\ ret' = [op |-> "none"]
    /\ ctx' = Idle
    /\ UNCHANGED <<users, projects, memories, cur_user, cur_project, next_id>>

\* MemoryManager.initialize() on a new database, no user_name, no project_path
Init ==
    /\ users = EmptyMap
    /\ projects = EmptyMap
    /\ memories = EmptyMap
    /\ cur_user = NoneRec
    /\ cur_project = NoneRec
    /\ now = 0
    /\ next_id = 1
    /\ ret = [op |-> "none"]
    /\ ctx = Idle

Next ==
    \/ GetOrCreateUser
    \/ CurrentUser
    \/ SetCurrentUser
    \/ GetOrCreateProject
    \/ SetCurrentProject
    \/ StoreConversation
    \/ StoreUserPreference
    \/ StoreProjectContext
    \/ StoreLearnedCorrection
    \/ StoreToolPattern
    \/ PortStore
    \/ BuildContextString
    \/ GetRecentConversations
    \/ AddUserTag
    \/ Initialize
    \/ Tick

Spec == Init /\ [][Next]_vars

\* the Manager's calls on a database that is given no memories, with two project paths
IdentityNext ==
    \/ GetOrCreateUser
    \/ CurrentUser
    \/ SetCurrentUser
    \/ GetOrCreateProjectIn(IdentityPaths)
    \/ SetCurrentProject
    \/ StoreConversation
    \/ StoreUserPreference
    \/ StoreProjectContext
    \/ StoreLearnedCorrection
    \/ StoreToolPattern
    \/ BuildContextString
    \/ InitializeIn(IdentityPaths)
    \/ Tick

IdentitySpec == Init /\ [][IdentityNext]_vars

(***************************************************************************)
(* Vocabulary of the claims about the store_* helpers.                     *)
(***************************************************************************)
StoreHelpers ==
    {"store_conversation", "store_user_preference", "store_project_context",
     "store_learned_correction", "store_tool_pattern"}

ProjectActive == cur_project.id # None

\* the last call was a store_* helper given arguments the data model accepts
ValidStoreCall ==
    /\ ret.op \in StoreHelpers
    /\ 0 <= ret.importance /\ ret.importance <= 10
    /\ ret.op = "store_project_context" => ProjectActive

\* the call returned a memory and table memories holds it as returned
ReturnedAndStored ==
    /\ ret.exc = None
    /\ ret.value.id \in DOMAIN memories
    /\ get(memories, ret.value.id) = ret.value

(***************************************************************************)
(* C7: after a store_* helper is called with valid arguments, the store    *)
(* holds the memory it returns and that memory's content is the Safety     *)
(* Guard's sanitized output of the text the helper built.                  *)
(***************************************************************************)
C7_SanitizedContentStored ==
    ValidStoreCall =>
        /\ ReturnedAndStored
        /\ ret.value.content = sanitize_content(ret.content, 0).content

(***************************************************************************)
(* C8: the memory a valid store_* call stores has the scope of its helper: *)
(* store_conversation project if a project is active and user otherwise,  *)
(* store_user_preference and store_learned_correction user,                *)
(* store_project_context project, store_tool_pattern global.               *)
(***************************************************************************)
C8_ScopeByHelper ==
    ValidStoreCall =>
        /\ ReturnedAndStored
        /\ ret.value.scope =
              CASE ret.op = "store_conversation" ->
                       IF ProjectActive THEN "project" ELSE "user"
                [] ret.op = "store_user_preference"    -> "user"
                [] ret.op = "store_learned_correction" -> "user"
                [] ret.op = "store_project_context"    -> "project"
                [] ret.op = "store_tool_pattern"       -> "global"

(***************************************************************************)
(* C9: the memory a valid store_* call stores carries the retention_policy *)
(* of its memory_type: long_term for user preferences and corrections,     *)
(* medium_term for project context and tool patterns, short_term for       *)
(* conversations.                                                          *)
(***************************************************************************)
C9_RetentionByType ==
    ValidStoreCall =>
        /\ ReturnedAndStored
        /\ ret.value.memory_type \in {"user_preference", "correction"}
              => ret.value.retention_policy = "long_term"
        /\ ret.value.memory_type \in {"project_context", "tool_pattern"}
              => ret.value.retention_policy = "medium_term"
        /\ ret.value.memory_type \in {"conversation", "task_result"}
              => ret.value.retention_policy = "short_term"

(***************************************************************************)
(* C10: the memory a valid store_* call stores has an expires_at, and it   *)
(* is its creation time plus the TTL configured for its memory_type.       *)
(***************************************************************************)
C10_ExpiresAfterTtl ==
    ValidStoreCall =>
        /\ ReturnedAndStored
        /\ ret.value.expires_at # NoTime
        /\ ret.value.expires_at = ret.value.created_at + get_ttl(ret.value.memory_type)

(***************************************************************************)
(* The data model on its own: every constructor call of ModelInit is made  *)
(* by ModelConstruct, and ModelRoundTrip serializes the object it built    *)
(* with to_dict and rebuilds it with from_dict.                            *)
(***************************************************************************)
ModelUserIds    == {None, "", "usr_1"}
ModelProjectIds == {None, "", "proj_3f9a"}
ModelImportances == {0 - 1, 0, 5, 10, 11}
ModelPolicies   == {"short_term", "long_term"}
ModelTimes      == {NoTime, 3}
ModelTags       == {<<>>, <<"chat">>}

\* Memory(...) called with every field given
MemoryCalls ==
    {[op |-> "Memory", state |-> "called",
      args |-> [id |-> "mem_1", content |-> ShortText, memory_type |-> "correction",
                scope |-> scope, retention_policy |-> policy, user_id |-> user_id,
                project_id |-> project_id, created_at |-> 0, updated_at |-> 0,
                expires_at |-> expires_at, importance |-> importance,
                access_count |-> 0, last_accessed_at |-> NoTime, tags |-> <<>>,
                source |-> "unknown", metadata |-> <<>>]] :
        scope \in Scopes, policy \in ModelPolicies, user_id \in ModelUserIds,
        project_id \in ModelProjectIds, expires_at \in ModelTimes,
        importance \in ModelImportances}

\* Memory.create(...) called with keyword arguments
MemoryCreateCalls ==
    {[op |-> "Memory.create", state |-> "called",
      args |-> [content |-> ShortText, memory_type |-> "tool_pattern", scope |-> scope,
                user_id |-> user_id, project_id |-> project_id,
                importance |-> importance, tags |-> tags, expires_at |-> expires_at]] :
        scope \in Scopes, user_id \in ModelUserIds, project_id \in ModelProjectIds,
        expires_at \in ModelTimes, importance \in ModelImportances, tags \in ModelTags}

UserCreateCalls ==
    {[op |-> "User.create", state |-> "called", args |-> [name |-> name]] :
        name \in UserNames \cup {""}}

ProjectFromPathCalls ==
    {[op |-> "Project.from_path", state |-> "called",
      args |-> [absolute_path |-> path]] : path \in DOMAIN PathComponents}

ModelInit ==
    /\ users = EmptyMap /\ projects = EmptyMap /\ memories = EmptyMap
    /\ cur_user = NoneRec /\ cur_project = NoneRec
    /\ now \in 0..MaxClock /\ next_id = 1
    /\ ctx = Idle
    /\ ret \in MemoryCalls \cup MemoryCreateCalls \cup UserCreateCalls
                 \cup ProjectFromPathCalls

\* the call is made
ModelConstruct ==
    /\ ret.state = "called"
    /\ ret' = [op |-> ret.op, state |-> "constructed", args |-> ret.args,
               result |->
                  CASE ret.op = "Memory" -> Memory(ret.args)
                    [] ret.op = "Memory.create" -> Memory_create(ret.args, next_id, now)
                    [] ret.op = "User.create" ->
                           [exc |-> None,
                            value |-> User_create(ret.args.name, next_id, now)]
                    [] ret.op = "Project.from_path" ->
                           [exc |-> None,
                            value |-> Project_from_path(ret.args.absolute_path, now)]]
    /\ UNCHANGED <<users, projects, memories, cur_user, cur_project, now, next_id, ctx>>

\* from_dict(to_dict(x)) of the object x the call returned
ModelRoundTrip ==
    /\ ret.state = "constructed"
    /\ ret.result.exc = None
    /\ ret' = [op |-> ret.op, state |-> "restored", args |-> ret.args,
               result |-> ret.result,
               restored |->
                  CASE ret.op \in {"Memory", "Memory.create"} ->
                           Memory_from_dict(Memory_to_dict(ret.result.value))
                    [] ret.op = "User.create" ->
                           [exc |-> None,
                            value |-> User_from_dict(User_to_dict(ret.result.value))]
                    [] ret.op = "Project.from_path" ->
                           [exc |-> None,
                            value |-> Project_from_dict(
                                          Project_to_dict(ret.result.value))]]
    /\ UNCHANGED <<users, projects, memories, cur_user, cur_project, now, next_id, ctx>>

ModelNext == ModelConstruct \/ ModelRoundTrip

ModelSpec == ModelInit /\ [][ModelNext]_vars

(***************************************************************************)
(* Vocabulary of the claims about the data model.                          *)
(***************************************************************************)
MemoryConstructed ==
    /\ ret.op \in {"Memory", "Memory.create"}
    /\ ret.state \in {"constructed", "restored"}

\* the arguments of the call leave out an owner its scope requires
OwnerMissing ==
    \/ ret.args.scope = "user" /\ Falsy(ret.args.user_id)
    \/ ret.args.scope = "project" /\ Falsy(ret.args.project_id)

ImportanceInRange == 0 <= ret.args.importance /\ ret.args.importance <= 10

(***************************************************************************)
(* C11: a Memory that is constructed with scope user has a non-empty       *)
(* user_id and one with scope project a non-empty project_id, both as      *)
(* given by the caller; a call whose arguments lack the owner its scope    *)
(* requires raises ValueError and returns no memory.                       *)
(***************************************************************************)
C11_ScopeRequiresOwner ==
    MemoryConstructed =>
        /\ ret.result.exc = None =>
              /\ ret.result.value.scope = ret.args.scope
              /\ ret.result.value.user_id = ret.args.user_id
              /\ ret.result.value.project_id = ret.args.project_id
              /\ ret.result.value.scope = "user" => ~Falsy(ret.result.value.user_id)
              /\ ret.result.value.scope = "project"
                    => ~Falsy(ret.result.value.project_id)
        /\ OwnerMissing => /\ ret.result.exc = "ValueError"
                           /\ ret.result.value = NoneRec

C11_Witness ==
    /\ MemoryConstructed
    /\ ret.op = "Memory.create"
    /\ ret.args.scope = "project"
    /\ ret.args.project_id = ""
    /\ ret.args.user_id = "usr_1"
    /\ ImportanceInRange
    /\ ret.result.exc = "ValueError"

(***************************************************************************)
(* C12: a Memory that is constructed with scope global has neither a       *)
(* user_id nor a project_id.                                               *)
(***************************************************************************)
C12_GlobalHasNoOwner ==
    (MemoryConstructed /\ ret.result.exc = None /\ ret.result.value.scope = "global")
        => /\ ret.result.value.user_id = None
           /\ ret.result.value.project_id = None

(***************************************************************************)
(* C14: from_dict(to_dict(x)) is x, field by field, for every Memory, User *)
(* and Project x.                                                          *)
(***************************************************************************)
C14_RoundTrip ==
    ret.op \in {"Memory", "Memory.create", "User.create", "Project.from_path"}
        /\ ret.state = "restored"
        => ret.restored = ret.result

(***************************************************************************)
(* The storage port on its own: users, projects and memories are stored    *)
(* and read back through SQLiteMemoryStore, without a Manager.  ctx counts *)
(* the get_and_track calls made on each memory since it was last stored.   *)
(***************************************************************************)
MaxTracks == 2    \* most get_and_track calls on one memory

StoreUsers ==
    {[id |-> "usr_1", name |-> name, created_at |-> 0] : name \in {"a", "b"}}

\* the project of /a/b, a project with another id and the path_hash of /a/b, and the
\* project of /c
StoreProjects ==
    {Project_from_path("/a/b", 0),
     [Project_from_path("/a/b", 0) EXCEPT !.id = "proj_other"],
     Project_from_path("/c", 0)}

\* user_id and project_id of the memories handed to store; no user has the id usr_9
StoreOwners ==
    {<<None, None>>, <<"usr_1", None>>, <<"usr_1", "proj_3f9a">>, <<"usr_9", None>>}

\* the fields of the memories handed to store: mem_1 with every owner and with
\* importances inside and outside the range, and the global mem_2
StoreMemoryFields(id, owner, importance) ==
    [id |-> id, content |-> ShortText, memory_type |-> "correction",
     scope |-> IF owner[1] = None THEN "global" ELSE "user",
     retention_policy |-> "long_term", user_id |-> owner[1],
     project_id |-> owner[2], created_at |-> 0, updated_at |-> 0,
     expires_at |-> NoTime, importance |-> importance, access_count |-> 0,
     last_accessed_at |-> NoTime, tags |-> <<"correction">>, source |-> "unknown",
     metadata |-> <<>>]

StoreMemories ==
    {StoreMemoryFields("mem_1", owner, importance) :
        owner \in StoreOwners, importance \in {3, 10}}
    \cup {StoreMemoryFields("mem_1", <<None, None>>, importance) :
            importance \in {0 - 1, 11}}
    \cup {StoreMemoryFields("mem_2", <<None, None>>, 5)}

\* the ids handed to get and to get_and_track; no memory has the id mem_9
MemoryIds == {"mem_1", "mem_2", "mem_9"}
TrackIds  == {"mem_1", "mem_9"}

Tracked(counts) == [state |-> "port", tracked |-> counts]

StoreInit ==
    /\ users = EmptyMap /\ projects = EmptyMap /\ memories = EmptyMap
    /\ cur_user = NoneRec /\ cur_project = NoneRec
    /\ now = 0 /\ next_id = 1
    /\ ret = [op |-> "none"]
    /\ ctx = Tracked(EmptyMap)

\* store.store_user(user)
StoreUser ==
    \E user \in StoreUsers :
        /\ users' = store_user(users, user)
        /\ ret' = [op |-> "store_user", exc |-> None, arg |-> user,
                   existed |-> user.id \in DOMAIN users, value |-> user]
        /\ UNCHANGED <<projects, memories, cur_user, cur_project, now, next_id, ctx>>

\* store.store_project(project)
StoreProject ==
    \E project \in StoreProjects :
        LET stored == store_project(projects, memories, project)
        IN  /\ projects' = stored.projects
            /\ ret' = [op |-> "store_project", exc |-> stored.exc, arg |-> project,
                       existed |-> project.id \in DOMAIN projects,
                       value |-> IF stored.exc = None THEN project ELSE NoneRec]
            /\ UNCHANGED <<users, memories, cur_user, cur_project, now, next_id, ctx>>

\* store.store(Memory(...)): the memory is constructed and, if that succeeds, stored
StoreMemory ==
    \E fields \in StoreMemories :
        LET made   == Memory(fields)
            stored == IF made.exc = None
                      THEN store(memories, users, projects, made.value)
                      ELSE [exc |-> made.exc, memories |-> memories]
        IN  /\ memories' = stored.memories
            /\ ret' = [op |-> "store", exc |-> stored.exc, arg |-> fields,
                       existed |-> fields.id \in DOMAIN memories,
                       value |-> IF stored.exc = None THEN made.value ELSE NoneRec]
            /\ ctx' = IF stored.exc = None
                      THEN Tracked((fields.id :> 0) @@ ctx.tracked)
                      ELSE ctx
            /\ UNCHANGED <<users, projects, cur_user, cur_project, now, next_id>>

\* store.get(memory_id)
Get ==
    \E memory_id \in MemoryIds :
        /\ ret' = [op |-> "get", exc |-> None, arg |-> memory_id,
                   existed |-> memory_id \in DOMAIN memories,
                   value |-> get(memories, memory_id)]
        /\ UNCHANGED <<users, projects, memories, cur_user, cur_project, now, next_id,
                       ctx>>

\* store.get_and_track(memory_id)
GetAndTrack ==
    \E memory_id \in TrackIds :
        LET r == get_and_track(memories, users, projects, memory_id, now)
        IN  /\ memory_id \in DOMAIN memories
                => get(memories, memory_id).access_count < MaxTracks
            /\ memories' = r.memories
            /\ ret' = [op |-> "get_and_track", exc |-> r.exc, arg |-> memory_id,
                       existed |-> memory_id \in DOMAIN memories, value |-> r.memory]
            /\ ctx' = IF memory_id \in DOMAIN memories
                      THEN Tracked([ctx.tracked EXCEPT ![memory_id] = @ + 1])
                      ELSE ctx
            /\ UNCHANGED <<users, projects, cur_user, cur_project, now, next_id>>

\* a day passes
StoreTick ==
    /\ now < MaxClock
    /\ now' = now + 1
    /\ ret' = [op |-> "none"]
    /\ UNCHANGED <<users, projects, memories, cur_user, cur_project, next_id, ctx>>

StoreNext ==
    \/ StoreUser
    \/ StoreProject
    \/ StoreMemory
    \/ Get
    \/ GetAndTrack
    \/ StoreTick

StoreSpec == StoreInit /\ [][StoreNext]_vars

(***************************************************************************)
(* Vocabulary of the claims about the storage port.  ret describes the     *)
(* call of the last step, so in an action formula ret' names the call the  *)
(* step makes and the unprimed tables are the store it was made on.        *)
(***************************************************************************)
InRange(importance) == 0 <= importance /\ importance <= 10

\* table after holds a row with the id, keeps every other row of table before as it
\* was and has one row more exactly if the id is new
UpsertEffect(before, after, id) ==
    /\ id \in DOMAIN after
    /\ \A k \in DOMAIN before \ {id} : k \in DOMAIN after /\ after[k] = before[k]
    /\ Cardinality(DOMAIN after) =
          Cardinality(DOMAIN before) + (IF id \in DOMAIN before THEN 0 ELSE 1)

\* the project rows with another id that hold the path_hash of project
SamePathHash(project_rows, project) ==
    {k \in DOMAIN project_rows :
        k # project.id /\ project_rows[k].path_hash = project.path_hash}

\* a user_id or project_id of the memory names no row
Dangling(memory, user_rows, project_rows) ==
    \/ memory.user_id # None /\ memory.user_id \notin DOMAIN user_rows
    \/ memory.project_id # None /\ memory.project_id \notin DOMAIN project_rows

(***************************************************************************)
(* C13: constructing a Memory whose importance is outside [0.0, 1.0]       *)
(* raises ValueError and yields no memory; a memory with an importance     *)
(* inside the range is read back by get with the importance it was stored  *)
(* with, right after the store and after every later call that does not    *)
(* store it again.                                                         *)
(***************************************************************************)
C13_ImportancePreserved ==
    /\ [](ret.op = "store" =>
            /\ ~InRange(ret.arg.importance)
                  => ret.exc = "ValueError" /\ ret.value = NoneRec
            /\ ret.exc = None
                  => /\ InRange(ret.arg.importance)
                     /\ get(memories, ret.arg.id).importance = ret.arg.importance)
    /\ [][\A id \in DOMAIN memories :
             ret'.op # "store"
                => /\ id \in DOMAIN memories'
                   /\ get(memories', id).importance = get(memories, id).importance]_vars

C13_Witness ==
    /\ ret.op = "get_and_track"
    /\ ret.existed
    /\ ret.value.importance = 10
    /\ ret.value.access_count = 1
    /\ get(memories, ret.arg).importance = 10

C19_AccessTracked ==
    /\ [](/\ \A id \in DOMAIN memories :
                /\ get(memories, id).access_count = ctx.tracked[id]
                /\ ctx.tracked[id] > 0 => get(memories, id).last_accessed_at # NoTime
          /\ ret.op = "get_and_track" =>
                IF ret.existed
                THEN /\ ret.value = get(memories, ret.arg)
                     /\ ret.value.last_accessed_at = now
                ELSE ret.value = NoneRec)
    /\ [][/\ ret'.op = "get" => memories' = memories
          /\ ret'.op = "get_and_track" =>
                IF ret'.arg \in DOMAIN memories
                THEN /\ UpsertEffect(memories, memories', ret'.arg)
                     /\ get(memories', ret'.arg).access_count
                           = get(memories, ret'.arg).access_count + 1
                ELSE memories' = memories]_vars

C19_Witness ==
    /\ ret.op = "get"
    /\ ret.arg = "mem_1"
    /\ ret.existed
    /\ ret.value.access_count = 2
    /\ ret.value.last_accessed_at = 1
    /\ ctx.tracked["mem_1"] = 2
    /\ "mem_2" \in DOMAIN memories

(***************************************************************************)
(* C20: every user_id and project_id of a stored memory that is not NULL   *)
(* names a row of users and of projects; a store of a memory with a        *)
(* user_id or project_id that names no row raises an error and writes no   *)
(* row.                                                                    *)
(***************************************************************************)
C20_ReferentialIntegrity ==
    /\ [](\A id \in DOMAIN memories : ~Dangling(get(memories, id), users, projects))
    /\ [][(ret'.op = "store" /\ Dangling(ret'.arg, users, projects))
             => /\ ret'.exc # None
                /\ InRange(ret'.arg.importance) => ret'.exc = "IntegrityError"
                /\ memories' = memories]_vars

C20_Witness ==
    /\ ret.op = "store"
    /\ ret.exc = "IntegrityError"
    /\ ret.arg.project_id = "proj_3f9a"
    /\ ret.arg.user_id \in DOMAIN users
    /\ ret.existed
    /\ DOMAIN projects = {"proj_other"}

(***************************************************************************)
(* Vocabulary of the claims about users, projects and the session.         *)
(***************************************************************************)
\* every row of table before is in table after, as it was
RowsKept(before, after) ==
    \A id \in DOMAIN before : id \in DOMAIN after /\ after[id] = before[id]

\* the calls that read the property current_user
ReadsCurrentUser == StoreHelpers \cup {"build_context_string", "current_user"}

(***************************************************************************)
(* C15: get_or_create_user(name) returns the one user row with that name:  *)
(* no two rows share a name, a call that finds a row returns it and writes *)
(* nothing, a call that finds none adds exactly one row, and no call of    *)
(* the Manager changes or removes a user row; so every call with the same  *)
(* name returns the same id.                                               *)
(***************************************************************************)
C15_GetOrCreateUserIdempotent ==
    /\ [](/\ \A name \in UserNames : Cardinality(get_user_by_name(users, name)) <= 1
          /\ ret.op = "get_or_create_user"
                => /\ get_user_by_name(users, ret.name) = {ret.value}
                   /\ ret.value.name = ret.name)
    /\ [][/\ RowsKept(users, users')
          /\ ret'.op = "get_or_create_user" =>
                IF get_user_by_name(users, ret'.name) # {}
                THEN /\ users' = users
                     /\ ret'.value \in get_user_by_name(users, ret'.name)
                ELSE Cardinality(DOMAIN users') = Cardinality(DOMAIN users) + 1]_vars

C15_Witness ==
    /\ ret.op = "get_or_create_user"
    /\ ret.name = "nick"
    /\ ret.value.created_at < now
    /\ Cardinality(DOMAIN users) = 2

(***************************************************************************)
(* C16: get_or_create_project(path) returns the one project row that holds *)
(* the hash of the path, with the id and path_hash that derive from the    *)
(* path alone: a call that finds the row returns it and writes nothing, a  *)
(* call that finds none adds it, and no call of any Manager on the         *)
(* database changes or removes a project row; so any two calls with the    *)
(* same path return the same id and path_hash.                             *)
(***************************************************************************)
C16_ProjectKeyedByPathHash ==
    /\ [](/\ \A path \in IdentityPaths :
                Cardinality(get_project_by_path(projects, path)) <= 1
          /\ ret.op = "get_or_create_project"
                => /\ ret.exc = None
                   /\ get_project_by_path(projects, ret.path) = {ret.value}
                   /\ ret.value.path_hash = sha256_hexdigest(ret.path)
                   /\ ret.value.id = "proj_" \o sha256_hexdigest(ret.path)
          /\ (ret.op = "initialize" /\ ret.project_path # None)
                => get_project_by_path(projects, ret.project_path) = {cur_project})
    /\ [][/\ RowsKept(projects, projects')
          /\ ret'.op = "get_or_create_project" =>
                IF get_project_by_path(projects, ret'.path) # {}
                THEN /\ projects' = projects
                     /\ ret'.value \in get_project_by_path(projects, ret'.path)
                ELSE Cardinality(DOMAIN projects') =
                        Cardinality(DOMAIN projects) + 1]_vars

C16_Witness ==
    /\ ret.op = "get_or_create_project"
    /\ ret.path = "/a/b"
    /\ ret.value.created_at < now
    /\ Cardinality(DOMAIN projects) = 2
    /\ cur_project.id = "proj_b07e"

(***************************************************************************)
(* C17: a read of current_user leaves a user cached.  With none cached the *)
(* read caches the user named default_user_id, creating its row only if    *)
(* there is none; with one cached the read returns it and writes nothing.  *)
(* set_current_user caches the user it is given, and no read sets          *)
(* current_project.                                                        *)
(***************************************************************************)
C17_CurrentUserLazy ==
    /\ [](ret.op \in ReadsCurrentUser
             => /\ cur_user # NoneRec
                /\ get_user(users, cur_user.id) = cur_user
                /\ ret.op = "current_user" => ret.value = cur_user)
    /\ [][/\ ret'.op \in ReadsCurrentUser =>
                /\ cur_project' = cur_project
                /\ IF cur_user = NoneRec
                   THEN /\ cur_user'.name = default_user_id
                        /\ get_user_by_name(users', default_user_id) = {cur_user'}
                        /\ RowsKept(users, users')
                        /\ Cardinality(DOMAIN users') =
                              Cardinality(DOMAIN users)
                                 + (IF get_user_by_name(users, default_user_id) = {}
                                    THEN 1 ELSE 0)
                   ELSE /\ cur_user' = cur_user
                        /\ users' = users
          /\ ret'.op = "set_current_user" => cur_user' = ret'.arg]_vars

C17_Witness ==
    /\ ret.op = "current_user"
    /\ ret.value.name = "nick"
    /\ cur_project = NoneRec
    /\ Cardinality(DOMAIN users) = 2

(***************************************************************************)
(* The storage port with its connection: a SQLiteMemoryStore over a        *)
(* database file that holds two users and a project.  ctx holds whether    *)
(* the store has a connection and the UTC offset of the local zone, in     *)
(* hours; the clock of this specification counts hours.  The rows of a     *)
(* database file outlive close().                                          *)
(***************************************************************************)
UtcOffsets == {0 - 1, 0, 1}

Port(connected, utcoffset) ==
    [state |-> "port", conn |-> connected, utcoffset |-> utcoffset]

\* the property conn: the error it raises, or None; first the mutant that hands out
\* whatever _conn holds
conn_unguarded(connected) == None

conn(connected) == IF connected THEN None ELSE "RuntimeError"

QueryUsers ==
    {[id |-> "usr_1", name |-> "a", created_at |-> 0],
     [id |-> "usr_2", name |-> "b", created_at |-> 0]}

QueryProject == Project_from_path("/a/b", 0)

\* the memories handed to store: they differ in every column a MemoryQuery filters
QueryMemories ==
    {[id |-> "mem_1", content |-> ShortText, memory_type |-> "conversation",
      scope |-> "user", retention_policy |-> "short_term", user_id |-> "usr_1",
      project_id |-> None, created_at |-> 0, updated_at |-> 0, expires_at |-> 1,
      importance |-> 5, access_count |-> 0, last_accessed_at |-> NoTime,
      tags |-> <<"chat">>, source |-> "agent", metadata |-> <<>>],
     [id |-> "mem_2", content |-> ShortText, memory_type |-> "user_preference",
      scope |-> "user", retention_policy |-> "long_term", user_id |-> "usr_2",
      project_id |-> None, created_at |-> 1, updated_at |-> 1, expires_at |-> NoTime,
      importance |-> 8, access_count |-> 0, last_accessed_at |-> NoTime,
      tags |-> <<"preference">>, source |-> "user", metadata |-> <<>>],
     [id |-> "mem_3", content |-> ShortText, memory_type |-> "project_context",
      scope |-> "project", retention_policy |-> "medium_term", user_id |-> "usr_1",
      project_id |-> QueryProject.id, created_at |-> 0, updated_at |-> 0,
      expires_at |-> 0, importance |-> 5, access_count |-> 0,
      last_accessed_at |-> NoTime, tags |-> <<"chat", "context">>,
      source |-> "agent", metadata |-> <<>>],
     [id |-> "mem_4", content |-> ShortText, memory_type |-> "tool_pattern",
      scope |-> "global", retention_policy |-> "medium_term", user_id |-> None,
      project_id |-> None, created_at |-> 1, updated_at |-> 1, expires_at |-> NoTime,
      importance |-> 3, access_count |-> 0, last_accessed_at |-> NoTime,
      tags |-> <<>>, source |-> "unknown", metadata |-> <<>>]}

QueryIds == {m.id : m \in QueryMemories} \cup {"mem_9"}

\* the keyword arguments of the queries: none, and each filter field on its own
QueryFilters ==
    {<<>>,
     [user_id |-> "usr_1"],
     [user_id |-> "usr_2"],
     [project_id |-> QueryProject.id],
     [memory_types |-> {"conversation"}],
     [memory_types |-> {"conversation", "tool_pattern"}],
     [scopes |-> {"user"}],
     [retention_policies |-> {"medium_term"}],
     [tags |-> {"chat"}],
     [tags |-> {"context", "preference"}],
     [source |-> "agent"],
     [created_after |-> 0],
     [created_before |-> 1],
     [user_id |-> "usr_1", memory_types |-> {"conversation", "project_context"}]}

\* the MemoryQuery objects handed to query, count and delete_by_query: every filter
\* with include_expired unset and set, and one query that pages and orders
Queries ==
    {MemoryQuery(kwargs).value : kwargs \in QueryFilters}
    \cup {MemoryQuery([include_expired |-> TRUE] @@ kwargs).value :
             kwargs \in QueryFilters}
    \cup {MemoryQuery([include_expired |-> TRUE, limit |-> 2, offset |-> 1,
                       order_by |-> "importance", order_desc |-> FALSE]).value}

QueryInit ==
    /\ users = [id \in {u.id : u \in QueryUsers} |->
                   user_values(CHOOSE u \in QueryUsers : u.id = id)]
    /\ projects = (QueryProject.id :> project_values(QueryProject))
    /\ memories = EmptyMap
    /\ cur_user = NoneRec /\ cur_project = NoneRec
    /\ now = 0 /\ next_id = 1
    /\ ret = [op |-> "none"]
    /\ \E utcoffset \in UtcOffsets : ctx = Port(FALSE, utcoffset)

\* what a call that reads the property conn without a connection does: it raises
Raises(op, arg) ==
    /\ ret' = [op |-> op, exc |-> conn(ctx.conn), arg |-> arg, value |-> NoneRec]
    /\ UNCHANGED <<users, projects, memories, cur_user, cur_project, now, next_id, ctx>>

\* CREATE TABLE IF NOT EXISTS on a table with these rows; first the mutant that
\* creates the table anew
create_table_anew(rows) == EmptyMap

create_table(rows) == rows

\* store.initialize(): connects and creates the tables the file does not hold
Connect ==
    /\ ctx' = Port(TRUE, ctx.utcoffset)
    /\ users' = create_table(users)
    /\ projects' = create_table(projects)
    /\ memories' = create_table(memories)
    /\ ret' = [op |-> "initialize", exc |-> None]
    /\ UNCHANGED <<cur_user, cur_project, now, next_id>>

\* store.close()
Close ==
    /\ ctx' = Port(FALSE, ctx.utcoffset)
    /\ ret' = [op |-> "close", exc |-> None]
    /\ UNCHANGED <<users, projects, memories, cur_user, cur_project, now, next_id>>

\* store.store(memory), with a memory created by now
QStore ==
    \E fields \in QueryMemories :
        /\ fields.created_at <= now
        /\ IF conn(ctx.conn) # None THEN Raises("store", fields.id)
           ELSE LET stored == store(memories, users, projects, Memory(fields).value)
                IN  /\ memories' = stored.memories
                    /\ ret' = [op |-> "store", exc |-> stored.exc, arg |-> fields.id,
                               value |-> NoneRec]
                    /\ UNCHANGED <<users, projects, cur_user, cur_project, now,
                                   next_id, ctx>>

\* store.get(memory_id)
QGet ==
    \E memory_id \in QueryIds :
        IF conn(ctx.conn) # None THEN Raises("get", memory_id)
        ELSE /\ ret' = [op |-> "get", exc |-> None, arg |-> memory_id,
                        value |-> get(memories, memory_id)]
             /\ UNCHANGED <<users, projects, memories, cur_user, cur_project, now,
                            next_id, ctx>>

\* store.query(q)
Query ==
    \E q \in Queries :
        IF conn(ctx.conn) # None THEN Raises("query", q)
        ELSE \E rows \in query(memories, q, datetime_now(now, ctx.utcoffset)) :
                /\ ret' = [op |-> "query", exc |-> None, arg |-> q, value |-> rows]
                /\ UNCHANGED <<users, projects, memories, cur_user, cur_project, now,
                               next_id, ctx>>

\* store.count(q), and store.count()
Count ==
    \E q \in Queries \cup {NoneRec} :
        IF conn(ctx.conn) # None THEN Raises("count", q)
        ELSE /\ ret' = [op |-> "count", exc |-> None, arg |-> q,
                        value |-> count(memories, q,
                                        datetime_now(now, ctx.utcoffset))]
             /\ UNCHANGED <<users, projects, memories, cur_user, cur_project, now,
                            next_id, ctx>>

\* store.delete(memory_id)
Delete ==
    \E memory_id \in QueryIds :
        IF conn(ctx.conn) # None THEN Raises("delete", memory_id)
        ELSE /\ memories' = delete(memories, memory_id).memories
             /\ ret' = [op |-> "delete", exc |-> None, arg |-> memory_id,
                        value |-> delete(memories, memory_id).deleted]
             /\ UNCHANGED <<users, projects, cur_user, cur_project, now, next_id, ctx>>

\* store.delete_by_query(q); ret keeps the table as it was before the call
DeleteByQuery ==
    \E q \in Queries :
        IF conn(ctx.conn) # None THEN Raises("delete_by_query", q)
        ELSE LET r == delete_by_query(memories, q, datetime_now(now, ctx.utcoffset))
             IN  /\ memories' = r.memories
                 /\ ret' = [op |-> "delete_by_query", exc |-> None, arg |-> q,
                            value |-> r.rowcount, before |-> memories]
                 /\ UNCHANGED <<users, projects, cur_user, cur_project, now, next_id,
                                ctx>>

\* store.delete_expired()
DeleteExpired ==
    IF conn(ctx.conn) # None THEN Raises("delete_expired", None)
    ELSE LET r == delete_expired(memories, now)
         IN  /\ memories' = r.memories
             /\ ret' = [op |-> "delete_expired", exc |-> None, arg |-> None,
                        value |-> r.rowcount]
             /\ UNCHANGED <<users, projects, cur_user, cur_project, now, next_id, ctx>>

\* SQLiteMemoryStore.get_stats: the total is count() with no query, the counts by
\* type and by scope are count(MemoryQuery(...)) and are kept when positive; t is the
\* reading of datetime.now()
get_stats(table, t) ==
    LET by_type(memory_type) ==
            count(table, MemoryQuery([memory_types |-> {memory_type}]).value, t)
        by_scope(scope) == count(table, MemoryQuery([scopes |-> {scope}]).value, t)
        times == {fromisoformat(r.created_at) : r \in Range(table)}
    IN  [total_memories |-> count(table, NoneRec, t),
         memories_by_type |-> [memory_type \in {x \in MemoryTypes : by_type(x) > 0} |->
                                  by_type(memory_type)],
         memories_by_scope |-> [scope \in {x \in Scopes : by_scope(x) > 0} |->
                                   by_scope(scope)]]
        @@ (IF times = {} THEN EmptyMap
            ELSE [oldest_memory |-> MinOf(times), newest_memory |-> MaxOf(times)])

\* store.get_stats()
GetStats ==
    IF conn(ctx.conn) # None THEN Raises("get_stats", None)
    ELSE /\ ret' = [op |-> "get_stats", exc |-> None, arg |-> None,
                    value |-> get_stats(memories, datetime_now(now, ctx.utcoffset))]
         /\ UNCHANGED <<users, projects, memories, cur_user, cur_project, now, next_id,
                        ctx>>

\* store.store_user(user), with a user of the database
QStoreUser ==
    \E user \in QueryUsers :
        IF conn(ctx.conn) # None THEN Raises("store_user", user.id)
        ELSE /\ users' = store_user(users, user)
             /\ ret' = [op |-> "store_user", exc |-> None, arg |-> user.id,
                        value |-> user]
             /\ UNCHANGED <<projects, memories, cur_user, cur_project, now, next_id,
                            ctx>>

\* store.get_user(user_id)
QGetUser ==
    \E user_id \in {"usr_1", "usr_9"} :
        IF conn(ctx.conn) # None THEN Raises("get_user", user_id)
        ELSE /\ ret' = [op |-> "get_user", exc |-> None, arg |-> user_id,
                        value |-> get_user(users, user_id)]
             /\ UNCHANGED <<users, projects, memories, cur_user, cur_project, now,
                            next_id, ctx>>

\* store.store_project(project), with the project of the database
QStoreProject ==
    IF conn(ctx.conn) # None THEN Raises("store_project", QueryProject.id)
    ELSE LET stored == store_project(projects, memories, QueryProject)
         IN  /\ projects' = stored.projects
             /\ ret' = [op |-> "store_project", exc |-> stored.exc,
                        arg |-> QueryProject.id, value |-> QueryProject]
             /\ UNCHANGED <<users, memories, cur_user, cur_project, now, next_id, ctx>>

\* store.get_project(project_id)
QGetProject ==
    \E project_id \in {QueryProject.id, "proj_9"} :
        IF conn(ctx.conn) # None THEN Raises("get_project", project_id)
        ELSE /\ ret' = [op |-> "get_project", exc |-> None, arg |-> project_id,
                        value |-> get_project(projects, project_id)]
             /\ UNCHANGED <<users, projects, memories, cur_user, cur_project, now,
                            next_id, ctx>>

\* an hour passes
QueryTick ==
    /\ now < MaxClock
    /\ now' = now + 1
    /\ ret' = [op |-> "none"]
    /\ UNCHANGED <<users, projects, memories, cur_user, cur_project, next_id, ctx>>

QueryNext ==
    \/ Connect
    \/ Close
    \/ QStore
    \/ QGet
    \/ Query
    \/ Count
    \/ Delete
    \/ DeleteByQuery
    \/ DeleteExpired
    \/ GetStats
    \/ QStoreUser
    \/ QGetUser
    \/ QStoreProject
    \/ QGetProject
    \/ QueryTick

QuerySpec == QueryInit /\ [][QueryNext]_vars

(***************************************************************************)
(* Vocabulary of the claims about queries, deletion and the lifecycle of   *)
(* the store.                                                              *)
(***************************************************************************)
Stored == {row_to_memory(r) : r \in Range(memories)}

Elements(seq) == {seq[i] : i \in 1..Len(seq)}

\* memory m satisfies every filter field that query q sets, expiry aside
Satisfies(m, q) ==
    /\ q.user_id = None \/ m.user_id = q.user_id
    /\ q.project_id = None \/ m.project_id = q.project_id
    /\ q.memory_types = {} \/ m.memory_type \in q.memory_types
    /\ q.scopes = {} \/ m.scope \in q.scopes
    /\ q.retention_policies = {} \/ m.retention_policy \in q.retention_policies
    /\ q.tags = {} \/ Elements(m.tags) \cap q.tags # {}
    /\ q.source = None \/ m.source = q.source
    /\ q.created_after = NoTime \/ m.created_at > q.created_after
    /\ q.created_before = NoTime \/ m.created_at < q.created_before

\* the clock has passed the expires_at of memory m
Expired(m) == m.expires_at # NoTime /\ m.expires_at < now

\* the query that sets field and nothing else
Only(field, value) == MemoryQuery(field :> value).value

DataOps ==
    {"store", "get", "query", "count", "delete", "delete_by_query", "delete_expired",
     "store_user", "get_user", "store_project", "get_project"}

(***************************************************************************)
(* C21: query(q) returns exactly the stored memories that satisfy every    *)
(* filter field set in q (user_id, project_id, memory_types, scopes,       *)
(* retention_policies, tags with match-any semantics, source,              *)
(* created_after, created_before); an unset field restricts nothing and a  *)
(* memory failing a set filter is never returned.  Stated for the queries  *)
(* that include expired memories and whose limit and offset cut nothing.   *)
(***************************************************************************)
C21_QueryFilters ==
    (/\ ret.op = "query"
     /\ ret.exc = None
     /\ ret.arg.include_expired
     /\ ret.arg.offset = 0
     /\ ret.arg.limit >= Cardinality(Stored))
        => Elements(ret.value) = {m \in Stored : Satisfies(m, ret.arg)}

(***************************************************************************)
(* C22: a query with include_expired = false returns a memory only if its  *)
(* expires_at is null or later than the time of the call: once the clock   *)
(* has passed a memory's expires_at, no default query returns it, swept or *)
(* not.                                                                    *)
(***************************************************************************)
C22_ExpiredNeverReturned ==
    (/\ ret.op = "query"
     /\ ret.exc = None
     /\ ~ret.arg.include_expired)
        => \A m \in Elements(ret.value) : ~Expired(m)

(***************************************************************************)
(* C23: delete_expired() removes exactly the rows whose expires_at is      *)
(* non-null and strictly before the time of the call, returns the number   *)
(* removed (0 when none qualify) and leaves every other row, in particular *)
(* every row with no expiry, unchanged.                                    *)
(***************************************************************************)
C23_DeleteExpired ==
    [][(ret'.op = "delete_expired" /\ ret'.exc = None) =>
          LET gone == {k \in DOMAIN memories : Expired(get(memories, k))}
          IN  /\ DOMAIN memories' = DOMAIN memories \ gone
              /\ \A k \in DOMAIN memories' : memories'[k] = memories[k]
              /\ ret'.value = Cardinality(gone)
              /\ \A k \in DOMAIN memories :
                    memories[k].expires_at = None => k \in DOMAIN memories']_vars

\* a sweep removed one row and kept a row that expires at the time of the call and a
\* row with no expiry
C23_Witness ==
    /\ ret.op = "delete_expired"
    /\ ret.exc = None
    /\ ret.value = 1
    /\ \E m \in Stored : m.expires_at = now
    /\ \E m \in Stored : m.expires_at = NoTime

(***************************************************************************)
(* C24: delete_by_query(q) deletes all memories matching q and only those, *)
(* and returns their number: after delete_by_query(MemoryQuery(user_id=u)) *)
(* no memory of user u remains in the store and every memory of any other  *)
(* user is unchanged; likewise for project_id.                             *)
(***************************************************************************)
C24_DeleteByQuery ==
    \A field \in {"user_id", "project_id"} :
       \A owner \in DOMAIN users \cup DOMAIN projects :
          (/\ ret.op = "delete_by_query"
           /\ ret.exc = None
           /\ ret.arg = Only(field, owner)) =>
              LET owned == {k \in DOMAIN ret.before : ret.before[k][field] = owner}
              IN  /\ DOMAIN memories = DOMAIN ret.before \ owned
                  /\ \A k \in DOMAIN memories : memories[k] = ret.before[k]
                  /\ ret.value = Cardinality(owned)

(***************************************************************************)
(* C25: every data operation (store, get, query, delete, count,            *)
(* delete_expired, delete_by_query, user and project operations) called    *)
(* before initialize() or after close() raises an error and has no effect; *)
(* operations succeed only between initialize() and close().               *)
(***************************************************************************)
C25_Lifecycle ==
    /\ ~ctx.conn
    /\ [][/\ ret'.op = "initialize" => ctx'.conn
          /\ ret'.op = "close" => ~ctx'.conn
          /\ ret'.op \in DataOps =>
                /\ ctx'.conn = ctx.conn
                /\ IF ctx.conn
                   THEN ret'.exc = None
                   ELSE /\ ret'.exc = "RuntimeError"
                        /\ <<users, projects, memories>>' =
                              <<users, projects, memories>>]_vars

\* a get on a closed store that holds a memory raised
C25_Witness ==
    /\ ret.op = "get"
    /\ ret.exc = "RuntimeError"
    /\ ret.arg \in DOMAIN memories
    /\ ~ctx.conn

(***************************************************************************)
(* The Safety Guard on its own: sanitize_content is applied to a content   *)
(* and a max_length, and then once more to the content it returned.  The   *)
(* contents are words joined by single spaces; ctx holds the call, the     *)
(* number of secrets written into the content and the results.             *)
(***************************************************************************)
MaxWords == 3    \* most words of a content

\* the secret of every key-value pair of the contents
SecretText == <<"h", "2">>

\* words that are a key-value pair with the secret as value
SecretWords ==
    { <<"p", "w", "d", "=", "h", "2">>,
      <<"P", "A", "S", "S", "W", "O", "R", "D", ":", " ", "h", "2">>,
      <<"t", "o", "k", "e", "n", "=", "'", "h", "2", "'">> }

\* words without a secret: a plain word, a raw blocked sequence followed by a long
\* run without whitespace, a wrapped blocked sequence and a raw one
PlainWords ==
    { <<"h", "i">>,
      <<"<", "/", "s", ">">> \o Fill("a", 18),
      <<"[", "S", "Y", "S", "T", "E", "M", ":", "]">>,
      <<"U", "S", "E", "R", ":">> }

\* the max_length arguments: 0 for None, limits below, at and above the length of the
\* truncation indicator
MaxLengths == {0, 5, 16, 22, 30}

RECURSIVE JoinWords(_)
\* " ".join(words)
JoinWords(words) ==
    IF Len(words) = 0 THEN <<>>
    ELSE IF Len(words) = 1 THEN words[1]
    ELSE words[1] \o <<" ">> \o JoinWords(Tail(words))

GuardCall(words, max_length) ==
    [state |-> "guard", content |-> JoinWords(words), max_length |-> max_length,
     planted |-> Cardinality({i \in 1..Len(words) : words[i] \in SecretWords}),
     calls |-> 0, result |-> NoneRec, again |-> NoneRec]

GuardInit ==
    /\ users = EmptyMap /\ projects = EmptyMap /\ memories = EmptyMap
    /\ cur_user = NoneRec /\ cur_project = NoneRec
    /\ now = 0 /\ next_id = 1
    /\ ret = [op |-> "none"]
    /\ \E words \in SeqsUpTo(SecretWords \cup PlainWords, MaxWords),
          max_length \in MaxLengths :
            ctx = GuardCall(words, max_length)

\* guard.sanitize_content(content, max_length)
Sanitize ==
    /\ ctx.calls = 0
    /\ ctx' = [ctx EXCEPT !.calls = 1,
                          !.result = sanitize_content(ctx.content, ctx.max_length)]
    /\ ret' = [op |-> "sanitize_content"]
    /\ UNCHANGED <<users, projects, memories, cur_user, cur_project, now, next_id>>

\* guard.sanitize_content(result.content, max_length), on the content returned
SanitizeAgain ==
    /\ ctx.calls = 1
    /\ ctx' = [ctx EXCEPT !.calls = 2,
                          !.again = sanitize_content(ctx.result.content,
                                                     ctx.max_length)]
    /\ ret' = [op |-> "sanitize_content"]
    /\ UNCHANGED <<users, projects, memories, cur_user, cur_project, now, next_id>>

GuardNext ==
    \/ Sanitize
    \/ SanitizeAgain

GuardSpec == GuardInit /\ [][GuardNext]_vars

(***************************************************************************)
(* Vocabulary of the claims about sanitize_content.                        *)
(***************************************************************************)
Sanitized == ctx.calls >= 1

Truncated(result) == "truncated" \in Elements(result.actions)

(***************************************************************************)
(* C26: sanitization is idempotent on its own output: for every input x,   *)
(* sanitize_content(sanitize_content(x).content).content equals            *)
(* sanitize_content(x).content.                                            *)
(***************************************************************************)
C26_Idempotent ==
    ctx.calls = 2 => ctx.again.content = ctx.result.content

C28_SecretsRedacted ==
    Sanitized =>
        /\ ctx.result.redacted_count = ctx.planted
        /\ ctx.planted >= 1 =>
              /\ ~Contains(ctx.result.content, SecretText)
              /\ Contains(ctx.result.content, REDACTION_MARKER)
              /\ "redacted_secret" \in Elements(ctx.result.actions)

(***************************************************************************)
(* C28, amended: as claimed, except that the output holds the marker only  *)
(* if truncation has not cut it off.                                       *)
(***************************************************************************)
C28_SecretsRedactedOrCut ==
    Sanitized =>
        /\ ctx.result.redacted_count = ctx.planted
        /\ ctx.planted >= 1 =>
              /\ ~Contains(ctx.result.content, SecretText)
              /\ Contains(ctx.result.content, REDACTION_MARKER)
                    \/ Truncated(ctx.result)
              /\ "redacted_secret" \in Elements(ctx.result.actions)

\* a content with two secrets came back in full, with two redactions
C28_Witness ==
    /\ Sanitized
    /\ ctx.planted = 2
    /\ Contains(ctx.content, SecretText)
    /\ ~Truncated(ctx.result)
    /\ ctx.result.redacted_count = 2
    /\ Contains(ctx.result.content, REDACTION_MARKER)

(***************************************************************************)
(* Path validation on its own: validate_path is called with a path and a   *)
(* working directory in a process whose current directory is cwd.  ctx     *)
(* holds the call and its result.                                          *)
(***************************************************************************)
CurrentDirectories == { <<"", "">>, <<"", "w">> }

\* "/", "/etc", "/w", "/w/d", "/w/", "/w/../etc", "//w", ".", "d", ""
WorkingDirectories ==
    { <<"", "">>, <<"", "etc">>, <<"", "w">>, <<"", "w", "d">>, <<"", "w", "">>,
      <<"", "w", "..", "etc">>, <<"", "", "w">>, <<".">>, <<"d">>, <<"">> }

\* "../../etc/passwd", ".", "", "x", "d/x", "x/../..", "d/../../secret", "..",
\* "/etc/passwd", "/w/x", "/w/d", "//w/x"
FilePaths ==
    { <<"..", "..", "etc", "passwd">>, <<".">>, <<"">>, <<"x">>, <<"d", "x">>,
      <<"x", "..", "..">>, <<"d", "..", "..", "secret">>, <<"..">>,
      <<"", "etc", "passwd">>, <<"", "w", "x">>, <<"", "w", "d">>,
      <<"", "", "w", "x">> }

PathCall(file_path, working_directory, cwd) ==
    [state |-> "path", file_path |-> file_path,
     working_directory |-> working_directory, cwd |-> cwd, calls |-> 0,
     result |-> NoneRec]

PathInit ==
    /\ users = EmptyMap /\ projects = EmptyMap /\ memories = EmptyMap
    /\ cur_user = NoneRec /\ cur_project = NoneRec
    /\ now = 0 /\ next_id = 1
    /\ ret = [op |-> "none"]
    /\ \E file_path \in FilePaths, working_directory \in WorkingDirectories,
          cwd \in CurrentDirectories :
            ctx = PathCall(file_path, working_directory, cwd)

\* guard.validate_path(file_path, working_directory)
ValidatePath ==
    /\ ctx.calls = 0
    /\ ctx' = [ctx EXCEPT !.calls = 1,
                          !.result = validate_path(ctx.file_path, ctx.working_directory,
                                                   ctx.cwd)]
    /\ ret' = [op |-> "validate_path",
               value |-> is_path_safe(ctx.file_path, ctx.working_directory, ctx.cwd)]
    /\ UNCHANGED <<users, projects, memories, cur_user, cur_project, now, next_id>>

PathNext == ValidatePath

PathSpec == PathInit /\ [][PathNext]_vars

(***************************************************************************)
(* Vocabulary of the claim about validate_path.                            *)
(***************************************************************************)
\* the absolute working directory and the normalized join of the path onto it
WorkingDirAbs == abspath(ctx.working_directory, ctx.cwd)

TargetPath == normpath(path_join(WorkingDirAbs, ctx.file_path))

\* the names on the way from the root to an absolute path
Components(path) == SelectSeq(path, LAMBDA c : c # "")

\* target is the directory itself or a path below it
Inside(target, directory) ==
    /\ Len(Components(target)) >= Len(Components(directory))
    /\ SubSeq(Components(target), 1, Len(Components(directory))) = Components(directory)

(***************************************************************************)
(* C29: with path validation enabled, validate_path(p, wd) is safe exactly *)
(* when the normalized join of p onto the absolute wd is wd itself or a    *)
(* descendant of it: "../../etc/passwd" is unsafe for every wd, and "."    *)
(* and every path that normalizes to a descendant of wd are safe.          *)
(***************************************************************************)
C29_SafeIffInside ==
    ctx.calls = 1 =>
        /\ ctx.result.is_safe <=> Inside(TargetPath, WorkingDirAbs)
        /\ ctx.file_path = <<".">> => ctx.result.is_safe
        /\ ctx.file_path = <<"..", "..", "etc", "passwd">> => ~ctx.result.is_safe

(***************************************************************************)
(* Vocabulary of the claim about get_recent_conversations.                 *)
(***************************************************************************)
\* the conversations of the current user stored under the active project or under
\* no project, expired ones aside
RecentConversations ==
    {m \in Stored : /\ m.memory_type = "conversation"
                    /\ m.user_id = cur_user.id
                    /\ m.project_id \in {cur_project.id, None}
                    /\ ~Expired(m)}

(***************************************************************************)
(* C30: with a project active, get_recent_conversations(limit) returns the *)
(* current user's conversations stored under that project together with    *)
(* the user's conversations stored while no project was active, ordered    *)
(* newest first and at most limit items.                                   *)
(***************************************************************************)
C30_RecentConversations ==
    (/\ ret.op = "get_recent_conversations"
     /\ ret.include_project
     /\ cur_project.id # None)
        => /\ ret.exc = None
           /\ Len(ret.value) = Min(ret.limit, Cardinality(RecentConversations))
           /\ Elements(ret.value) \subseteq RecentConversations
           /\ \A i, j \in 1..Len(ret.value) :
                 i < j => ret.value[i].created_at >= ret.value[j].created_at
           /\ \A m \in RecentConversations \ Elements(ret.value) :
                 \A i \in 1..Len(ret.value) : ret.value[i].created_at >= m.created_at

(***************************************************************************)
(* Vocabulary of the claim about add_user_tag.                             *)
(***************************************************************************)
\* the tags of a user value, none when the value carries no tags
TagsOf(user) ==
    IF "tags" \in DOMAIN user THEN {user.tags[i] : i \in 1..Len(user.tags)} ELSE {}

(***************************************************************************)
(* C31: add_user_tag(tag) is copy-on-write and persisted: it yields a user *)
(* value with the same id whose tags contain tag, makes it the current     *)
(* user, and replaces the stored row, so that reloading that user from the *)
(* store by id or by name yields a user whose tags contain tag.            *)
(***************************************************************************)
C31_AddUserTag ==
    ret.op = "add_user_tag" =>
        /\ ret.exc = None
        /\ ret.value.id \in DOMAIN users
        /\ ret.tag \in TagsOf(ret.value)
        /\ cur_user = ret.value
        /\ ret.tag \in TagsOf(get_user(users, ret.value.id))
        /\ \A u \in get_user_by_name(users, ret.value.name) : ret.tag \in TagsOf(u)

(***************************************************************************)
(* The Manager's read path over a database that already holds the memories *)
(* of two users in one project: the memories were written through the      *)
(* store, and Managers for either user, with or without the project        *)
(* active, read them.                                                      *)
(***************************************************************************)
RetrievalMemory(id, content, memory_type, scope, user_id, project_id, created_at) ==
    [id |-> id, content |-> content, memory_type |-> memory_type, scope |-> scope,
     retention_policy |-> "long_term", user_id |-> user_id, project_id |-> project_id,
     created_at |-> created_at, updated_at |-> created_at, expires_at |-> NoTime,
     importance |-> 5, access_count |-> 0, last_accessed_at |-> NoTime,
     tags |-> <<>>, source |-> "agent", metadata |-> <<>>]

\* project context, a preference and a correction of each of the two users
RetrievalMemories ==
    {RetrievalMemory("mem_1", <<"a", "1">>, "project_context", "project", "usr_1",
                     QueryProject.id, 0),
     RetrievalMemory("mem_2", <<"b", "1">>, "project_context", "project", "usr_2",
                     QueryProject.id, 1),
     RetrievalMemory("mem_3", <<"a", "2">>, "user_preference", "user", "usr_1", None, 0),
     RetrievalMemory("mem_4", <<"b", "2">>, "user_preference", "user", "usr_2", None, 1),
     RetrievalMemory("mem_5", <<"a", "3">>, "correction", "user", "usr_1", None, 0),
     RetrievalMemory("mem_6", <<"b", "3">>, "correction", "user", "usr_2", None, 1)}

RetrievalInit ==
    /\ users = [id \in {u.id : u \in QueryUsers} |->
                   user_values(CHOOSE u \in QueryUsers : u.id = id)]
    /\ projects = (QueryProject.id :> project_values(QueryProject))
    /\ \E stored \in SUBSET RetrievalMemories :
          memories = [id \in {m.id : m \in stored} |->
                         memory_values(CHOOSE m \in stored : m.id = id)]
    /\ cur_user \in QueryUsers \cup {NoneRec}
    /\ cur_project \in {QueryProject, NoneRec}
    /\ now = 0 /\ next_id = 1
    /\ ret = [op |-> "none"]
    /\ ctx = Idle

\* get_project_context(): current_user is read only when a project is active
GetProjectContext ==
    LET cu == IF cur_project.id = None
              THEN [user |-> cur_user, users |-> users]
              ELSE current_user(cur_user, users, user_uuid4(users), now)
    IN  /\ users' = cu.users
        /\ cur_user' = cu.user
        /\ \E value \in get_project_context(memories, cu.user, cur_project, now) :
              ret' = [op |-> "get_project_context", exc |-> None, value |-> value]
        /\ ctx' = Idle
        /\ UNCHANGED <<projects, memories, cur_project, now, next_id>>

\* get_user_preferences()
GetUserPreferences ==
    LET cu == current_user(cur_user, users, user_uuid4(users), now)
    IN  /\ users' = cu.users
        /\ cur_user' = cu.user
        /\ \E value \in get_user_preferences(memories, cu.user, now) :
              ret' = [op |-> "get_user_preferences", exc |-> None, value |-> value]
        /\ ctx' = Idle
        /\ UNCHANGED <<projects, memories, cur_project, now, next_id>>

\* get_relevant_corrections()
GetRelevantCorrections ==
    LET cu == current_user(cur_user, users, user_uuid4(users), now)
    IN  /\ users' = cu.users
        /\ cur_user' = cu.user
        /\ \E value \in get_relevant_corrections(memories, cu.user, now) :
              ret' = [op |-> "get_relevant_corrections", exc |-> None, value |-> value]
        /\ ctx' = Idle
        /\ UNCHANGED <<projects, memories, cur_project, now, next_id>>

RetrievalNext ==
    \/ GetProjectContext
    \/ GetUserPreferences
    \/ GetRelevantCorrections
    \/ GetRecentConversations
    \/ BuildContextString
    \/ SetCurrentUser
    \/ SetCurrentProject

RetrievalSpec == RetrievalInit /\ [][RetrievalNext]_vars

(***************************************************************************)
(* Vocabulary of the claims about what a Manager reads.                    *)
(***************************************************************************)
\* the project context stored under the active project, whoever stored it
ProjectScoped ==
    {m \in Stored : /\ m.memory_type = "project_context"
                    /\ m.scope = "project"
                    /\ m.project_id = cur_project.id
                    /\ ~Expired(m)}

(***************************************************************************)
(* C32: project-scoped memories are visible to all users of the project:   *)
(* project context stored by user A while project P is active is returned  *)
(* by get_project_context, and offered to build_context_string, for any    *)
(* other user B whose active project is P.                                 *)
(***************************************************************************)
C32_ProjectContextShared ==
    cur_project.id # None =>
        /\ ret.op = "get_project_context" => ProjectScoped \subseteq Elements(ret.value)
        /\ ctx.state = "returned" => ProjectScoped \subseteq Elements(ctx.project_context)

\* the table without the rows owned by a user other than the current one
OwnRows == [k \in {k \in DOMAIN memories : memories[k].user_id = cur_user.id} |->
               memories[k]]

\* the memories owned by a user other than the current one
ForeignMemories == {m \in Stored : m.user_id # cur_user.id}

\* what build_context_string(include_history=False, max_chars) can return from table
ContextStrings(table, max_chars) ==
    {Render(Assemble(<<>>, corrections, preferences, project_context, max_chars).parts) :
        corrections \in get_relevant_corrections(table, cur_user, now),
        preferences \in get_user_preferences(table, cur_user, now),
        project_context \in get_project_context(table, cur_user, cur_project, now)}

StorageLimits ==
    [conversation |-> 500, user_preference |-> 50, project_context |-> 100,
     task_result |-> 200, correction |-> 100, tool_pattern |-> 50]

\* the owners a limit counts memories of type memory_type for
LimitOwners(memory_type) ==
    IF memory_type \in {"conversation", "user_preference", "correction"}
    THEN {[field |-> "user_id", id |-> m.user_id] : m \in Stored}
    ELSE IF memory_type = "task_result"
    THEN {[field |-> "project_id", id |-> m.project_id] : m \in Stored}
    ELSE {[field |-> "memory_type", id |-> memory_type]}

WithinLimits ==
    \A memory_type \in DOMAIN StorageLimits :
       \A owner \in LimitOwners(memory_type) :
          Cardinality({m \in Stored : /\ m.memory_type = memory_type
                                      /\ m[owner.field] = owner.id})
             <= StorageLimits[memory_type]

InvalidStoreCall ==
    /\ ret.op \in StoreHelpers
    /\ \/ ret.importance < 0
       \/ ret.importance > 10
       \/ ret.op = "store_project_context" /\ ~ProjectActive

(***************************************************************************)
(* C37: a Manager store_* call that fails with a validation error          *)
(* (store_project_context with no active project, or any store_* with      *)
(* importance outside the range) leaves the persisted store unchanged: no  *)
(* memory, user or project row is added or modified by the failed call.    *)
(***************************************************************************)
C37_FailedStoreLeavesStore ==
    [][InvalidStoreCall' =>
          /\ ret'.exc # None
          /\ users' = users
          /\ projects' = projects
          /\ memories' = memories]_vars

(***************************************************************************)
(* Vocabulary of the claim about the fixed sections.                       *)
(***************************************************************************)
\* the list retrieved for a fixed section
ItemsOf(header) ==
    CASE header = LearnedCorrections -> ctx.corrections
      [] header = UserPreferences    -> ctx.preferences
      [] header = ProjectContext     -> ctx.project_context

\* the characters emitted by the fixed sections ahead of header
UsedBefore(header) ==
    SumLen(ctx.parts, {h \in FixedHeaders : Rank(h) < Rank(header)})

\* the block of header fits the budget left when its turn comes
Fits(header) ==
    UsedBefore(header) + Len(SectionText(header, ItemsOf(header))) <= ctx.max_chars

(***************************************************************************)
(* C34: each of the three fixed sections (corrections, preferences,        *)
(* project context) is emitted whole or omitted whole, never truncated; a  *)
(* section that does not fit the remaining budget is skipped without       *)
(* raising, consumes no budget, and the sections after it are still        *)
(* considered and emitted when they fit.                                   *)
(***************************************************************************)
C34_FixedSectionsWhole ==
    HasReturned =>
        \A header \in FixedHeaders :
            /\ Cardinality(PartsWith(header)) <= 1
            /\ \A i \in PartsWith(header) :
                  /\ ctx.parts[i].items = ItemsOf(header)
                  /\ ctx.parts[i].text = SectionText(header, ItemsOf(header))
            /\ PartsWith(header) # {} <=> (ItemsOf(header) # <<>> /\ Fits(header))

\* the preferences did not fit and were skipped, and the project context after them
\* was emitted
C34_Witness ==
    /\ HasReturned
    /\ ctx.preferences # <<>>
    /\ ~Fits(UserPreferences)
    /\ PartsWith(UserPreferences) = {}
    /\ PartsWith(LearnedCorrections) # {}
    /\ PartsWith(ProjectContext) # {}

RECURSIVE SumCounts(_)
\* the sum of the counts of a dictionary
SumCounts(counts) ==
    IF DOMAIN counts = {} THEN 0
    ELSE LET k == CHOOSE x \in DOMAIN counts : TRUE
         IN  counts[k] + SumCounts([x \in DOMAIN counts \ {k} |-> counts[x]])

(***************************************************************************)
(* C39: statistics are self-consistent in every reachable store state: the *)
(* total reported by get_stats equals the sum of its per-type counts and   *)
(* equals the sum of its per-scope counts, since every stored memory has   *)
(* exactly one type and one scope.                                         *)
(***************************************************************************)
C39_StatsConsistent ==
    (ret.op = "get_stats" /\ ret.exc = None) =>
        /\ ret.value.total_memories = SumCounts(ret.value.memories_by_type)
        /\ ret.value.total_memories = SumCounts(ret.value.memories_by_scope)

\* the row is left out by a query with include_expired=false issued now
HiddenNow(row) ==
    ~Matches(row, MemoryQuery(<<>>).value, datetime_now(now, ctx.utcoffset))

\* the row would be removed by a delete_expired() call issued now
SweptNow(row) == row.id \notin DOMAIN delete_expired(memories, now).memories

(***************************************************************************)
(* C40: the three expiry tests agree at every instant t, including         *)
(* t = expires_at: a stored memory is hidden by a query with               *)
(* include_expired=false at t exactly when Memory.is_expired() is true at  *)
(* t and exactly when a delete_expired() call at t would remove it; no     *)
(* memory is ever hidden from default queries while being kept by the      *)
(* sweep.                                                                  *)
(***************************************************************************)
C40_ExpiryTestsAgree ==
    \A row \in Range(memories) :
        /\ HiddenNow(row) <=> is_expired(row_to_memory(row), now)
        /\ HiddenNow(row) <=> SweptNow(row)

(***************************************************************************)
(* Several Managers on one database file, one Manager per worker, each     *)
(* calling get_or_create_user(name).  A call is two statements on the      *)
(* shared file: the lookup store.get_user_by_name(name) and, when it finds *)
(* no row, the insert store.store_user(User.create(name)); the statements  *)
(* of different workers interleave.  ctx holds, for each worker, where its *)
(* call stands, the name it was given and the user it returned.            *)
(***************************************************************************)
Workers == {"w1", "w2", "w3"}

RaceNames == {"nick", default_user_id}

RaceInit ==
    /\ users = EmptyMap /\ projects = EmptyMap /\ memories = EmptyMap
    /\ cur_user = NoneRec /\ cur_project = NoneRec
    /\ now = 0 /\ next_id = 1
    /\ ret = [op |-> "none"]
    /\ ctx = [state |-> "workers",
              pc |-> [w \in Workers |-> "idle"],
              name |-> [w \in Workers |-> None],
              user |-> [w \in Workers |-> NoneRec]]

\* worker w calls get_or_create_user(name) and runs the lookup: the call returns the
\* row found, any one of them when several rows carry the name, or goes on to insert
Lookup(w) ==
    \E name \in RaceNames :
        LET existing == get_user_by_name(users, name)
        IN  /\ ctx.pc[w] \in {"idle", "returned"}
            /\ IF existing # {}
               THEN \E found \in existing :
                       ctx' = [ctx EXCEPT !.pc[w] = "returned", !.name[w] = name,
                                          !.user[w] = found]
               ELSE ctx' = [ctx EXCEPT !.pc[w] = "missing", !.name[w] = name,
                                       !.user[w] = NoneRec]
            /\ ret' = [op |-> "get_user_by_name", worker |-> w]
            /\ UNCHANGED <<users, projects, memories, cur_user, cur_project, now,
                           next_id>>

\* worker w, whose lookup found no row, creates the user and stores it
Insert(w) ==
    LET new_user == User_create(ctx.name[w], user_uuid4(users), now)
    IN  /\ ctx.pc[w] = "missing"
        /\ users' = store_user(users, new_user)
        /\ ctx' = [ctx EXCEPT !.pc[w] = "returned", !.user[w] = new_user]
        /\ ret' = [op |-> "store_user", worker |-> w]
        /\ UNCHANGED <<projects, memories, cur_user, cur_project, now, next_id>>

RaceNext == \E w \in Workers : Lookup(w) \/ Insert(w)

RaceSpec == RaceInit /\ [][RaceNext]_vars

(***************************************************************************)
(* C38: get-or-create stays idempotent across Managers: for any            *)
(* interleaving of get_or_create_user(name) calls (lookup step and insert  *)
(* step) issued by several Managers that share one database file, one      *)
(* Manager per worker, the store ends with exactly one user row named name *)
(* and all calls return the same id.                                       *)
(***************************************************************************)
C38_GetOrCreateAcrossManagers ==
    \A v, w \in Workers :
        (ctx.pc[v] = "returned" /\ ctx.pc[w] = "returned" /\ ctx.name[v] = ctx.name[w])
            => /\ Cardinality({k \in DOMAIN users :
                                  users[k].display_name = ctx.name[w]}) = 1
               /\ ctx.user[v].id = ctx.user[w].id

====
